---- MODULE Spec2Model ----
(***************************************************************************)
(* Change detection and content-addressed caching of the Confluence        *)
(* digest pipeline.                                                        *)
(*                                                                         *)
(*   part 1  single_page_monitor.py   detect_changes_optimized and the     *)
(*           snapshot blob page_<id>_raw_version.json                      *)
(*   part 2  v2_storage_manager.py    upload_if_changed,                   *)
(*           upload_content_if_changed, upload_page_version                *)
(*   part 3  v2_storage_manager.py    upload_image_deduplicated            *)
(*   part 4  v2_image_manager.py      process_page_images                  *)
(*   part 5  v2_description_generator.py  process_page_images and the      *)
(*           description cache of v2_storage_manager.py                    *)
(***************************************************************************)
EXTENDS Integers, Sequences, FiniteSets, TLC

(***************************************************************************)
(* Bounds of the model.                                                    *)
(***************************************************************************)
MaxConfluenceVersion == 3
MaxClock == 3
MaxAttachmentVersion == 2
MaxTokens == 4
MaxBlocks == 3
MaxRetryCount == 3
MaxPages == 2

\* Python's Optional: None is <<>>, a value x is <<x>>
None == <<>>
Some(x) == << x >>
Get(o) == o[1]

(***************************************************************************)
(* part 1: single_page_monitor.py                                          *)
(***************************************************************************)
VARIABLES
    wiki,       \* the page in Confluence: [version, html]
    snapshot,   \* blob page_<id>_raw_version.json in confluence-state, or None
    history,    \* blobs page_<id>_history/v<n>_<time>.json: set of <<n, time>>
    now,        \* datetime.utcnow(), one tick per run
    result,     \* what the last detect_changes_optimized call returned
    run,        \* the last call: what it read, computed and wrote
    prevRun     \* the call before the last one

detectVars == <<wiki, snapshot, history, now, result, run, prevRun>>

VARIABLES
    blobs,      \* confluence-content: blob path -> the blob stored there, or None
    upCall      \* the last upload call: its arguments, what it found and returned

uploadVars == <<blobs, upCall>>

VARIABLES
    imgBlobs    \* confluence-content, <base_path>/images/: blob name -> blob, or None

imageStoreVars == <<imgBlobs>>

VARIABLES
    attachments,  \* Confluence: attachment filename -> [version, bytes]
    external,     \* the bytes served at the external image URL
    imRun,        \* the last V2ImageManager.process_page_images call, with the
                  \* files it downloaded and those whose cache lookup raised
    resolved      \* what earlier calls returned: [filename, version_hash, blob_url, image_hash]

imagesVars == <<attachments, external, imRun, resolved>>

VARIABLES
    descCache,    \* <base_path>/descriptions/<image_hash>.json: hash -> record, or None
    descRun,      \* the last V2DescriptionGenerator.process_page_images call
    modelled,     \* image hashes the vision model has described successfully
    readFailed    \* whether some read of the description cache has raised

descVars == <<descCache, descRun, modelled, readFailed>>

VARIABLES
    markup,       \* the body of the page in storage format, a sequence of tokens
    parsed        \* the content_blocks of the last parse of markup, or None

parserVars == <<markup, parsed>>

VARIABLES
    indexed,      \* document['content_blocks'] of the page to index
    chunked       \* what the last chunker call made of document, or None

chunkVars == <<indexed, chunked>>

VARIABLES
    embedCall     \* the last call of generate_embedding and where it stands

embedVars == <<embedCall>>

VARIABLES
    batch         \* the last run over the list of pages and where it stands

pipelineVars == <<batch>>

VARIABLES
    metadataBlob,   \* <base_path>/metadata.json of the page, or None
    metaCall,       \* the last update_page_metadata call, or None
    versionsPassed  \* the versions of the calls that have returned

metaVars == <<metadataBlob, metaCall, versionsPassed>>

VARIABLES
    pipelineStats,   \* V2Pipeline.stats, the four image and description counters
    downloadStats,   \* V2ImageManager.download_stats
    generatorStats,  \* V2DescriptionGenerator.stats
    pageEvents,      \* the downloads, cache hits and model calls that took place
    pagesDone        \* how many pages process_multiple_pages has gone through

statsVars == <<pipelineStats, downloadStats, generatorStats, pageEvents, pagesDone>>

VARIABLES
    imageBlocks,     \* the image blocks of the page's content_blocks, in order
    attachedBlocks   \* the blocks after steps 3 and 4 of process_page, or None

attachVars == <<imageBlocks, attachedBlocks>>

VARIABLES
    pageSteps,       \* steps 2 to 5 of the last process_page: the detection they
                     \* followed, how they ended and the content they had
    processedHashes  \* the content hashes whose document has been uploaded

stepsVars == <<pageSteps, processedHashes>>

VARIABLES
    searchIndex,     \* the search index: the chunk_ids of the chunks it holds
    indexCall        \* the last index_single_page call, or None

indexVars == <<searchIndex, indexCall>>

VARIABLES
    mailCall         \* the last send_email_via_logic_app call and where it stands

mailVars == <<mailCall>>

\* the variables of parts 10 and later
laterVars == <<metaVars, statsVars, attachVars, stepsVars, indexVars, mailVars>>

\* the variables of parts 1 to 5 and those of the later parts
storeVars == <<detectVars, uploadVars, imageStoreVars, imagesVars, descVars>>
restVars == <<parserVars, chunkVars, embedVars, pipelineVars, laterVars>>
earlierVars == <<storeVars, parserVars, chunkVars, embedVars, pipelineVars>>

vars == <<storeVars, restVars>>

PAGE_TITLE == "ProPM Roles & Responsibilities"

\* storage-format elements of body.storage.value
Heading == [tag |-> "h2", arg |-> "Scope"]
Paragraph == [tag |-> "p", arg |-> "Quarterly roadmap updated"]
AttachedImage == [tag |-> "ac:image/ri:attachment", arg |-> "foo.png"]

\* the bodies the page takes: sequences of elements
Htmls ==
    { << Paragraph >>,
      << Paragraph, AttachedImage >>,
      << Paragraph, AttachedImage, Paragraph >>,
      << Heading, Paragraph >> }

\* the replacement text of one element (the re.sub calls): marker tokens
Marker(e) ==
    CASE e.tag = "h2" -> << "[HEADING]", e.arg >>
      [] e.tag = "ac:image/ri:attachment" -> << "[IMAGE_ATTACHMENT:", e.arg, "]" >>
      [] OTHER -> << e.arg >>

RECURSIVE BodyLine(_)
BodyLine(html) ==
    IF html = <<>> THEN <<>> ELSE Marker(Head(html)) \o BodyLine(Tail(html))

\* str(version) of the f-string
VersionToken(v) == << "1", "2", "3", "4", "5", "6", "7", "8", "9" >>[v]

\* extract_raw_text: "TITLE: t\nVERSION: v\n\n<body>"; re.sub(r'\s+', ' ')
\* has folded the whole body, its newlines included, into one line
RawText(page) ==
    << << "TITLE:", PAGE_TITLE >>,
       << "VERSION:", VersionToken(page.version) >>,
       <<>>,
       BodyLine(page.html) >>

Tokens ==
    << "TITLE:", PAGE_TITLE, "VERSION:", "[HEADING]", "Scope",
       "Quarterly roadmap updated", "[IMAGE_ATTACHMENT:", "foo.png", "]",
       "1", "2", "3", "4", "5", "6", "7", "8", "9" >>

TokCode(tok) == CHOOSE i \in 1..Len(Tokens) : Tokens[i] = tok

\* len() of a token in characters
TokLen(tok) ==
    CASE tok = "TITLE:" -> 6
      [] tok = PAGE_TITLE -> 30
      [] tok = "VERSION:" -> 8
      [] tok = "[HEADING]" -> 9
      [] tok = "Scope" -> 5
      [] tok = "Quarterly roadmap updated" -> 25
      [] tok = "[IMAGE_ATTACHMENT:" -> 18
      [] tok = "foo.png" -> 7
      [] OTHER -> 1

RECURSIVE HashLine(_, _)
HashLine(h, line) ==
    IF line = <<>> THEN h
    ELSE HashLine((h * 31 + TokCode(Head(line))) % 1000003, Tail(line))

RECURSIVE HashLines(_, _)
HashLines(h, lines) ==
    IF lines = <<>> THEN h
    ELSE HashLines((HashLine(h, Head(lines)) * 31 + 19) % 1000003, Tail(lines))

\* hashlib.sha256(raw_text.encode()).hexdigest(): a digest of every character
\* of the text, newlines included
ContentHash(raw_text) == HashLines(7, raw_text)

extract_raw_text(page, at) ==
    [ raw_text |-> RawText(page),
      content_hash |-> ContentHash(RawText(page)),
      extracted_at |-> at,
      confluence_version |-> page.version ]

\* the version data save_current_version writes
VersionData(raw_data, version_number) ==
    [ version_number |-> version_number,
      content_hash |-> raw_data.content_hash,
      raw_text |-> raw_data.raw_text,
      extracted_at |-> raw_data.extracted_at,
      confluence_version |-> raw_data.confluence_version ]

\* load_previous_version: the stored snapshot, None when the blob is missing
\* and None as well when the download or the JSON parse raises
load_previous_version(stored, outcome) ==
    IF outcome = "ok" THEN stored ELSE None

FirstVersionZero == 1 - 1

\* version_number = 1 of the first-run branch
FirstVersion == 1

NextVersionSkips(previous_version) == previous_version.version_number + 2

\* version_number = previous_version['version_number'] + 1
NextVersion(previous_version) == previous_version.version_number + 1

KeptVersionBumped(previous_version) == previous_version.version_number + 1

\* 'version_number': previous_version['version_number'] of the no-change return
KeptVersion(previous_version) == previous_version.version_number

\* 'marker' in line, for a marker that is one token of the line
Contains(line, tok) == \E i \in 1..Len(line) : line[i] = tok

IsImageLineNever(line) == FALSE

IsImageLine(line) ==
    \/ Contains(line, "[IMAGE_EXTERNAL:")
    \/ Contains(line, "[IMAGE_ATTACHMENT:")
    \/ Contains(line, "[IMAGE:")

RECURSIVE LineLen(_)
\* len(line.strip()): the tokens and the single blanks between them; the
\* closing bracket of an image marker follows the name without a blank
LineLen(line) ==
    IF line = <<>> THEN 0
    ELSE TokLen(Head(line))
         + (IF Len(line) > 1 /\ line[2] # "]" THEN 1 ELSE 0)
         + LineLen(Tail(line))

RECURSIVE Without(_, _)
\* str.replace(tok, ''), for a marker that is one token of the line
Without(line, toks) ==
    IF line = <<>> THEN <<>>
    ELSE IF Head(line) \in toks THEN Without(Tail(line), toks)
    ELSE << Head(line) >> \o Without(Tail(line), toks)

\* line[:n]
Truncate(line, n) ==
    IF LineLen(line) <= n THEN line ELSE [ first |-> n, of |-> line ]

MinTextLen == 10

IsTextLine(line) == ~IsImageLine(line) /\ ~Contains(line, "[HEADING]") /\ LineLen(line) > MinTextLen

RECURSIVE SetToSeq(_)
\* the order in which Python iterates a set of lines
SetToSeq(S) ==
    IF S = {} THEN <<>>
    ELSE LET x == CHOOSE y \in S : TRUE IN << x >> \o SetToSeq(S \ {x})

FirstN(s, n) == SubSeq(s, 1, IF Len(s) < n THEN Len(s) ELSE n)

RECURSIVE MapParts(_, _, _)
MapParts(tag, lines, n) ==
    IF lines = <<>> THEN <<>>
    ELSE << [ tag |-> tag, text |-> Truncate(Head(lines), n) ] >> \o MapParts(tag, Tail(lines), n)

LineSet(raw_text) == { raw_text[i] : i \in 1..Len(raw_text) }

\* the added-image segments: a line with [IMAGE: only adds no segment
NewImageParts(images_added) ==
    LET named == SelectSeq(images_added,
                     LAMBDA l : Contains(l, "[IMAGE_EXTERNAL:") \/ Contains(l, "[IMAGE_ATTACHMENT:"))
        strip(l) == IF Contains(l, "[IMAGE_EXTERNAL:")
                    THEN Without(l, {"[IMAGE_EXTERNAL:", "]"})
                    ELSE Without(l, {"[IMAGE_ATTACHMENT:", "]"})
    IN  [ i \in 1..Len(named) |-> [ tag |-> "NEW IMAGE ADDED", text |-> strip(named[i]) ] ]

\* the diff of detect_changes_optimized: the summary parts joined by " | "
ChangeSummary(prev_text, curr_text) ==
    LET prev_set == LineSet(prev_text)
        curr_set == LineSet(curr_text)
        added_lines == SetToSeq(curr_set \ prev_set)
        removed_lines == SetToSeq(prev_set \ curr_set)
        images_added == SelectSeq(added_lines, IsImageLine)
        images_removed == SelectSeq(removed_lines, IsImageLine)
        isHeading(l) == ~IsImageLine(l) /\ Contains(l, "[HEADING]")
        headings(ls) == LET hs == SelectSeq(ls, isHeading)
                        IN  [ i \in 1..Len(hs) |-> Without(hs[i], {"[HEADING]"}) ]
        text_added == [ i \in 1..Len(SelectSeq(added_lines, IsTextLine)) |->
                          Truncate(SelectSeq(added_lines, IsTextLine)[i], 100) ]
        text_removed == [ i \in 1..Len(SelectSeq(removed_lines, IsTextLine)) |->
                          Truncate(SelectSeq(removed_lines, IsTextLine)[i], 100) ]
        summary_parts ==
            NewImageParts(images_added)
            \o MapParts("IMAGE REMOVED", images_removed, 1000)
            \o MapParts("NEW SECTION", FirstN(headings(added_lines), 3), 1000)
            \o MapParts("SECTION REMOVED", FirstN(headings(removed_lines), 3), 1000)
            \o MapParts("NEW TEXT", FirstN(text_added, 3), 80)
            \o MapParts("TEXT REMOVED", FirstN(text_removed, 2), 60)
    IN  IF summary_parts # <<>> THEN summary_parts
        ELSE << [ tag |-> "Minor content changes",
                  added |-> Len(added_lines), removed |-> Len(removed_lines) ] >>

InitialExtraction == << [ tag |-> "Initial extraction" ] >>
NoChangesDetected == << [ tag |-> "No changes detected" ] >>

\* the dictionary detect_changes_optimized returns
DetectResult(current_data, previous_version) ==
    IF previous_version = None
    THEN [ has_changes |-> TRUE, version_number |-> FirstVersion,
           previous_version |-> None,
           change_summary |-> InitialExtraction, needs_reprocessing |-> TRUE ]
    ELSE IF current_data.content_hash = Get(previous_version).content_hash
    THEN [ has_changes |-> FALSE,
           version_number |-> KeptVersion(Get(previous_version)),
           previous_version |-> Some(Get(previous_version).version_number),
           change_summary |-> NoChangesDetected, needs_reprocessing |-> FALSE ]
    ELSE [ has_changes |-> TRUE,
           version_number |-> NextVersion(Get(previous_version)),
           previous_version |-> Some(Get(previous_version).version_number),
           change_summary |-> ChangeSummary(Get(previous_version).raw_text, current_data.raw_text),
           needs_reprocessing |-> TRUE ]

\* the early return of the no-change branch comes before Step 4
CallsSave(res) == res.has_changes

\* save_current_version: the snapshot blob after the call. "fail" raises
\* before the first upload_blob, "fail_history" in the second one
SavedSnapshot(stored, version_data, outcome) ==
    IF outcome \in {"ok", "fail_history"} THEN Some(version_data) ELSE stored

SavedHistory(hist, version_data, at, outcome) ==
    IF outcome = "ok" THEN hist \cup { << version_data.version_number, at >> } ELSE hist

LoadOutcomes == {"ok", "error"}
SaveOutcomes == {"ok", "fail", "fail_history"}

DetectInit ==
    /\ wiki = [ version |-> 1, html |-> << Paragraph >> ]
    /\ snapshot = None
    /\ history = {}
    /\ now = 0
    /\ result = None
    /\ run = None
    /\ prevRun = None

\* somebody saves the page in Confluence: the version counter moves on,
\* whether or not the body differs
EditPage ==
    /\ wiki.version < MaxConfluenceVersion
    /\ \E html \in Htmls : wiki' = [ version |-> wiki.version + 1, html |-> html ]
    /\ UNCHANGED <<snapshot, history, now, result, run, prevRun>>
    /\ UNCHANGED <<uploadVars, imageStoreVars, imagesVars, descVars, restVars>>

\* detect_changes_optimized(PAGE_ID), the fetch of the page succeeding
DetectChanges ==
    /\ now < MaxClock
    /\ \E load \in LoadOutcomes, save \in SaveOutcomes :
         LET current_data == extract_raw_text(wiki, now + 1)
             previous_version == load_previous_version(snapshot, load)
             res == DetectResult(current_data, previous_version)
             version_data == VersionData(current_data, res.version_number)
             saved == IF CallsSave(res) THEN save ELSE "not_called"
         IN  /\ ~CallsSave(res) => save = "ok"
             /\ now' = now + 1
             /\ snapshot' = IF CallsSave(res)
                            THEN SavedSnapshot(snapshot, version_data, save)
                            ELSE snapshot
             /\ history' = IF CallsSave(res)
                           THEN SavedHistory(history, version_data, now + 1, save)
                           ELSE history
             /\ result' = Some(res)
             /\ prevRun' = IF run = None THEN None
                           ELSE Some([ content_hash |-> Get(run).content_hash,
                                       version_number |-> Get(result).version_number,
                                       has_changes |-> Get(result).has_changes,
                                       wrote |-> Get(run).save \in {"ok", "fail_history"} ])
             /\ run' = Some([ pre |-> IF snapshot = None THEN None
                                      ELSE Some([ version_number |-> Get(snapshot).version_number,
                                                  content_hash |-> Get(snapshot).content_hash,
                                                  raw_text |-> Get(snapshot).raw_text ]),
                              load |-> load, save |-> saved,
                              content_hash |-> current_data.content_hash,
                              raw_text |-> current_data.raw_text,
                              at |-> now + 1 ])
    /\ UNCHANGED wiki
    /\ UNCHANGED <<uploadVars, imageStoreVars, imagesVars, descVars, restVars>>

\* detect_changes_optimized when requests.get raises in extract_raw_text:
\* the call raises before it has read or written the snapshot store
DetectFetchFails ==
    /\ result' = None
    /\ run' = None
    /\ prevRun' = None
    /\ UNCHANGED <<wiki, snapshot, history, now>>
    /\ UNCHANGED <<uploadVars, imageStoreVars, imagesVars, descVars, restVars>>

(***************************************************************************)
(* part 2: v2_storage_manager.py, uploads that skip unchanged content      *)
(***************************************************************************)
MaxVersions == 1
MaxStamp == 2

\* file and blob contents: byte strings
Contents == { << 1 >>, << 2 >>, << 1, 1 >> }

RECURSIVE Digest(_, _)
Digest(h, content) ==
    IF content = <<>> THEN h ELSE Digest(h * 7 + Head(content), Tail(content))

\* hashlib.md5(content).hexdigest()
compute_content_hash(content) == Digest(0, content)

\* compute_file_hash reads the file in chunks into the same md5
compute_file_hash(file_bytes) == Digest(0, file_bytes)

\* the content_blocks the parser returns for a body, as they are dumped
BlockCode(e) == IF e = Heading THEN 5 ELSE IF e = Paragraph THEN 6 ELSE 2

DumpBlocks(html) == [ i \in 1..Len(html) |-> BlockCode(html[i]) ]

\* json.dumps(document, indent=2, ensure_ascii=False).encode('utf-8')
JsonDumps(document) ==
    << 3, document.version, 4, document.extracted_at >> \o document.content_blocks

Documents ==
    [ version : 1..MaxVersions, extracted_at : 1..MaxStamp,
      content_blocks : { DumpBlocks(<< Paragraph >>) } ]

\* f"{base_path}/versions/v{version}.json"
VersionBlobPath(version) == << "versions", version >>

TestBlobPath == << "test/deduplication_test.json" >>

BlobPaths == { TestBlobPath } \cup { VersionBlobPath(v) : v \in 1..MaxConfluenceVersion }

ExistingHashWrongKey(stored) == None

\* existing_metadata.get('content_md5', '')
ExistingHash(stored) == Get(stored).content_md5

\* the try block of both uploads: blob_client.exists(), then the metadata
\* comparison; an exception in it is passed over and the upload goes on
SkipsUpload(stored, local_hash, check) ==
    /\ check = "ok"
    /\ stored # None
    /\ ExistingHash(stored) = Some(local_hash)

\* upload_blob(..., overwrite=True, metadata={'content_md5': hash})
UploadedBlob(content, content_hash) ==
    Some([ bytes |-> content, content_md5 |-> Some(content_hash) ])

CheckOutcomes == {"ok", "raise"}
PutOutcomes == {"ok", "raise"}

\* upload_content_if_changed / upload_if_changed on one blob path: the
\* store after the call and (uploaded, raised)
UploadIfChangedCall(fn, path, content, content_hash, check, put) ==
    LET stored == blobs[path]
        skip == SkipsUpload(stored, content_hash, check)
        raised == ~skip /\ put = "raise"
    IN  /\ skip => put = "ok"
        /\ blobs' = IF skip \/ raised THEN blobs
                    ELSE [ blobs EXCEPT ![path] = UploadedBlob(content, content_hash) ]
        /\ upCall' = Some([ fn |-> fn, path |-> path, content |-> content,
                            check |-> check, pre |-> stored,
                            uploaded |-> ~skip, raised |-> raised ])

UploadInit ==
    /\ blobs = [ path \in BlobPaths |-> None ]
    /\ upCall = None

upload_content_if_changed ==
    /\ \E content \in Contents, check \in CheckOutcomes, put \in PutOutcomes :
         UploadIfChangedCall("upload_content_if_changed", TestBlobPath, content,
                             compute_content_hash(content), check, put)
    /\ UNCHANGED <<detectVars, imageStoreVars, imagesVars, descVars, restVars>>

upload_if_changed ==
    /\ \E file_bytes \in Contents, check \in CheckOutcomes, put \in PutOutcomes :
         UploadIfChangedCall("upload_if_changed", TestBlobPath, file_bytes,
                             compute_file_hash(file_bytes), check, put)
    /\ UNCHANGED <<detectVars, imageStoreVars, imagesVars, descVars, restVars>>

\* upload_page_version(space_key, page_id, page_title, version, document)
upload_page_version ==
    /\ \E document \in Documents, check \in CheckOutcomes, put \in PutOutcomes :
         UploadIfChangedCall("upload_page_version", VersionBlobPath(document.version),
                             JsonDumps(document),
                             compute_content_hash(JsonDumps(document)), check, put)
    /\ UNCHANGED <<detectVars, imageStoreVars, imagesVars, descVars, restVars>>

\* process_page, step 5 up to the upload: the document of the page as it is
\* now, stamped with utcnow(), goes to upload_page_version under its version
UploadPageDocument ==
    /\ now < MaxClock
    /\ now' = now + 1
    /\ \E check \in CheckOutcomes, put \in PutOutcomes :
         LET document == [ version |-> wiki.version, extracted_at |-> now + 1,
                           content_blocks |-> DumpBlocks(wiki.html) ]
         IN  UploadIfChangedCall("upload_page_version", VersionBlobPath(document.version),
                                 JsonDumps(document),
                                 compute_content_hash(JsonDumps(document)), check, put)
    /\ UNCHANGED <<wiki, snapshot, history, result, run, prevRun>>
    /\ UNCHANGED <<imageStoreVars, imagesVars, descVars, restVars>>

(***************************************************************************)
(* part 3: v2_storage_manager.py, content-addressed image blobs            *)
(***************************************************************************)
\* original filenames of images, as (stem, suffix) of pathlib.Path
FooPng == [ stem |-> << "f", "o", "o" >>, suffix |-> ".png" ]
FooBarPng == [ stem |-> << "f", "o", "o", " ", "b", "a", "r", "!" >>, suffix |-> ".png" ]

Filenames == { FooPng, FooBarPng }

WordChars == { "f", "o", "b", "a", "r", "1", "_" }

RECURSIVE DropUnsafe(_)
\* re.sub(r'[^\w\s-]', '', text)
DropUnsafe(text) ==
    IF text = <<>> THEN <<>>
    ELSE IF Head(text) \in WordChars \cup { " ", "-" }
    THEN << Head(text) >> \o DropUnsafe(Tail(text))
    ELSE DropUnsafe(Tail(text))

RECURSIVE JoinRuns(_)
\* re.sub(r'[-\s]+', '_', safe)
JoinRuns(text) ==
    IF text = <<>> THEN <<>>
    ELSE IF Head(text) \in { " ", "-" }
    THEN IF Len(text) > 1 /\ text[2] \in { " ", "-" }
         THEN JoinRuns(Tail(text))
         ELSE << "_" >> \o JoinRuns(Tail(text))
    ELSE << Head(text) >> \o JoinRuns(Tail(text))

RECURSIVE StripUnderscores(_)
\* safe.strip('_')
StripUnderscores(text) ==
    IF text = <<>> THEN <<>>
    ELSE IF Head(text) = "_" THEN StripUnderscores(Tail(text))
    ELSE IF text[Len(text)] = "_" THEN StripUnderscores(SubSeq(text, 1, Len(text) - 1))
    ELSE text

MaxNameLen == 50

sanitize_name(text) ==
    LET safe == StripUnderscores(JoinRuns(DropUnsafe(text)))
    IN  SubSeq(safe, 1, IF Len(safe) < MaxNameLen THEN Len(safe) ELSE MaxNameLen)

ShortHashDivisor == 4

\* image_hash[:8]: the leading characters of the hexdigest
ShortHash(image_hash) == image_hash \div ShortHashDivisor

\* dedup_filename = f"{short_hash}_{safe_name}{ext}"
DedupFilename(image_hash, original_filename) ==
    << ShortHash(image_hash), sanitize_name(original_filename.stem), original_filename.suffix >>

ImageBlobNames ==
    { DedupFilename(compute_file_hash(c), f) : c \in Contents, f \in Filenames }

ReusesImageNever(stored, check) == FALSE

\* the try block of upload_image_deduplicated: blob_client.exists()
ReusesImage(stored, check) == check = "ok" /\ stored # None

\* upload_blob(f, overwrite=True, metadata={'image_hash', 'original_filename'})
UploadedImage(file_bytes, image_hash, original_filename) ==
    Some([ bytes |-> file_bytes, image_hash |-> image_hash,
           original_filename |-> original_filename, version_hash |-> None ])

\* upload_image_deduplicated(space_key, page_id, page_title, local_image_path,
\* original_filename): [store, uploaded, blob_url, image_hash, raised]
UploadImageDeduplicated(store, file_bytes, original_filename, check, put) ==
    LET image_hash == compute_file_hash(file_bytes)
        name == DedupFilename(image_hash, original_filename)
        reused == ReusesImage(store[name], check)
        raised == ~reused /\ put = "raise"
    IN  [ store |-> IF reused \/ raised THEN store
                    ELSE [ store EXCEPT ![name] =
                             UploadedImage(file_bytes, image_hash, original_filename) ],
          uploaded |-> ~reused,
          blob_url |-> name,
          image_hash |-> image_hash,
          raised |-> raised ]

ImageStoreInit == imgBlobs = [ name \in ImageBlobNames |-> None ]

upload_image_deduplicated ==
    /\ \E file_bytes \in Contents, original_filename \in Filenames,
          check \in CheckOutcomes, put \in PutOutcomes :
         LET r == UploadImageDeduplicated(imgBlobs, file_bytes, original_filename, check, put)
         IN  /\ (check = "ok" /\ imgBlobs[r.blob_url] # None) => put = "ok"
             /\ imgBlobs' = r.store
             /\ upCall' = Some([ fn |-> "upload_image_deduplicated", path |-> r.blob_url,
                                 content |-> file_bytes, check |-> check,
                                 pre |-> imgBlobs[r.blob_url],
                                 uploaded |-> r.uploaded, raised |-> r.raised,
                                 original_filename |-> original_filename,
                                 same_bytes |-> { n \in ImageBlobNames :
                                     /\ imgBlobs[n] # None
                                     /\ Get(imgBlobs[n]).bytes = file_bytes
                                     /\ Get(imgBlobs[n]).original_filename
                                           # original_filename } ])
    /\ UNCHANGED <<detectVars, blobs, imagesVars, descVars, restVars>>

(***************************************************************************)
(* part 4: v2_image_manager.py, downloads skipped on a matching version    *)
(***************************************************************************)
\* texts that are only hashed are sequences of character codes
NameCode(filename) == IF filename = FooPng THEN 1 ELSE 2
Colon == 0
EXTERNAL_URL == << 6 >>

\* content_blocks of the page, as the extractor returns them
ContentBlocks ==
    << [ type |-> "text", source |-> "", filename |-> FooPng, external_url |-> <<>> ],
       [ type |-> "image", source |-> "attachment", filename |-> FooPng,
         external_url |-> <<>> ],
       [ type |-> "image", source |-> "external_url", filename |-> FooBarPng,
         external_url |-> EXTERNAL_URL ] >>

AttachmentNames == { FooPng }

\* hashlib.md5(text.encode()).hexdigest()
Md5Hex(text) == Digest(0, text)

\* version_string = f"{filename}:{version}:{file_size}"
VersionString(filename, version, file_size) ==
    << NameCode(filename), Colon, version, Colon, file_size >>

\* one entry of get_attachment_info: fileSize is the length of the attachment
AttachmentInfo(filename, att) ==
    [ version |-> att.version,
      file_size |-> Len(att.bytes),
      version_hash |-> Md5Hex(VersionString(filename, att.version, Len(att.bytes))) ]

\* get_attachment_info(page_id): {} when the request fails
get_attachment_info(atts, outcome) ==
    [ f \in AttachmentNames |->
        IF outcome = "ok" THEN Some(AttachmentInfo(f, atts[f])) ELSE None ]

\* url_hash = hashlib.md5(external_url.encode()).hexdigest()
UrlHash(external_url) == Md5Hex(external_url)

\* the blobs of check_image_in_cache whose metadata name this file and version
CacheMatches(store, filename, version_hash) ==
    { n \in ImageBlobNames :
        /\ store[n] # None
        /\ Get(store[n]).original_filename = filename
        /\ Get(store[n]).version_hash = Some(version_hash) }

\* list_blobs returns names in order: the first match is the one returned
FirstBlob(names) == CHOOSE n \in names : \A m \in names : n[1] <= m[1]

\* check_image_in_cache: (blob_url, image_hash) or None; an exception is a miss
check_image_in_cache(store, filename, version_hash, outcome) ==
    LET matches == CacheMatches(store, filename, version_hash)
    IN  IF outcome = "ok" /\ matches # {}
        THEN Some([ blob_url |-> FirstBlob(matches),
                    image_hash |-> Get(store[FirstBlob(matches)]).image_hash ])
        ELSE None

\* blob_client.set_blob_metadata({image_hash, original_filename, version_hash})
SetBlobMetadata(blob, image_hash, filename, version_hash) ==
    Some([ bytes |-> Get(blob).bytes, image_hash |-> image_hash,
           original_filename |-> filename, version_hash |-> Some(version_hash) ])

\* if uploaded: try set_blob_metadata(...) except: pass
StoresVersionHash(uploaded, meta) == uploaded /\ meta = "ok"

Unprocessed == [ f \in Filenames |-> None ]

CachedImage(cached) ==
    Some([ blob_url |-> Get(cached).blob_url, image_hash |-> Get(cached).image_hash,
           downloaded |-> FALSE, from_cache |-> TRUE ])

DownloadedImage(r) ==
    Some([ blob_url |-> r.blob_url, image_hash |-> r.image_hash,
           downloaded |-> TRUE, from_cache |-> FALSE ])

\* the version marker a call looks up for a block, or None when the block
\* is passed over
BlockMarker(block, infos) ==
    IF block.type # "image" THEN None
    ELSE IF block.source = "attachment" /\ block.filename \in AttachmentNames
            /\ infos[block.filename] # None
    THEN Some(Get(infos[block.filename]).version_hash)
    ELSE IF block.source = "external_url" /\ block.external_url # <<>>
    THEN Some(UrlHash(block.external_url))
    ELSE None

\* response.content of download_attachment / download_external_image
Served(block) ==
    IF block.source = "attachment" THEN attachments[block.filename].bytes ELSE external

AfterBlock(index) == IF index < Len(ContentBlocks) THEN "running" ELSE "returned"

\* what the calls that returned have resolved, the latest per file and marker
Resolve(earlier, r) ==
    IF r.pc # "returned" THEN earlier
    ELSE LET new == { [ filename |-> ContentBlocks[i].filename,
                        version_hash |-> Get(BlockMarker(ContentBlocks[i], r.attachments)),
                        blob_url |-> Get(r.processed_images[ContentBlocks[i].filename]).blob_url,
                        image_hash |-> Get(r.processed_images[ContentBlocks[i].filename]).image_hash ] :
                      i \in { j \in 1..Len(ContentBlocks) :
                                /\ BlockMarker(ContentBlocks[j], r.attachments) # None
                                /\ r.processed_images[ContentBlocks[j].filename] # None } }
         IN  { e \in earlier : \A n \in new :
                   e.filename # n.filename \/ e.version_hash # n.version_hash } \cup new

\* what editors attach and what the external site serves
AttachedContents == { << 1 >>, << 2 >> }
ExternalContents == { << 1 >>, << 1, 1 >> }

FetchOutcomes == {"ok", "fail"}
MetaOutcomes == {"ok", "raise"}

ImagesInit ==
    /\ attachments = [ f \in AttachmentNames |-> [ version |-> 1, bytes |-> << 1 >> ] ]
    /\ external = << 1 >>
    /\ imRun = [ pc |-> "idle", index |-> 0,
                 attachments |-> get_attachment_info(attachments, "fail"),
                 processed_images |-> Unprocessed, downloads |-> {},
                 cache_failed |-> {} ]
    /\ resolved = {}

\* an editor attaches a new version of the file to the page
UpdateAttachment ==
    /\ imRun.pc # "running"
    /\ \E f \in AttachmentNames, bytes \in AttachedContents :
         /\ attachments[f].version < MaxAttachmentVersion
         /\ attachments' = [ attachments EXCEPT
                               ![f] = [ version |-> @.version + 1, bytes |-> bytes ] ]
    /\ UNCHANGED <<external, imRun, resolved>>
    /\ UNCHANGED <<detectVars, uploadVars, imageStoreVars, descVars, restVars>>

\* the site behind the external URL serves another image
ChangeExternalImage ==
    /\ imRun.pc # "running"
    /\ \E bytes \in ExternalContents \ { external } : external' = bytes
    /\ UNCHANGED <<attachments, imRun, resolved>>
    /\ UNCHANGED <<detectVars, uploadVars, imageStoreVars, descVars, restVars>>

\* process_page_images up to its loop: get_attachment_info, processed_images = {}
\* (download_stats only feeds the printed report and is not part of the state)
StartImages ==
    /\ imRun.pc # "running"
    /\ \E fetch \in FetchOutcomes :
         imRun' = [ pc |-> "running", index |-> 1,
                    attachments |-> get_attachment_info(attachments, fetch),
                    processed_images |-> Unprocessed, downloads |-> {},
                 cache_failed |-> {} ]
    /\ resolved' = Resolve(resolved, imRun)
    /\ UNCHANGED <<attachments, external>>
    /\ UNCHANGED <<detectVars, uploadVars, imageStoreVars, descVars, restVars>>

\* one turn of the loop over content_blocks; the call returns after the last
ProcessImageBlock ==
    /\ imRun.pc = "running"
    /\ \E cache \in CheckOutcomes, download \in FetchOutcomes, check \in CheckOutcomes,
          put \in PutOutcomes, meta \in MetaOutcomes :
         LET block == ContentBlocks[imRun.index]
             filename == block.filename
             marker == BlockMarker(block, imRun.attachments)
             cached == check_image_in_cache(imgBlobs, filename, Get(marker), cache)
             r == UploadImageDeduplicated(imgBlobs, Served(block), filename, check, put)
             failed == IF cache = "raise" THEN { filename } ELSE {}
             next == [ imRun EXCEPT !.pc = AfterBlock(imRun.index), !.index = @ + 1,
                                    !.cache_failed = @ \cup failed ]
         IN  IF marker = None
             THEN /\ cache = "ok" /\ download = "ok" /\ check = "ok"
                  /\ put = "ok" /\ meta = "ok"
                  /\ imRun' = next
                  /\ imgBlobs' = imgBlobs
             ELSE IF cached # None
             THEN /\ download = "ok" /\ check = "ok" /\ put = "ok" /\ meta = "ok"
                  /\ imRun' = [ next EXCEPT !.processed_images[filename] = CachedImage(cached) ]
                  /\ imgBlobs' = imgBlobs
             ELSE IF download = "fail"
             THEN /\ check = "ok" /\ put = "ok" /\ meta = "ok"
                  /\ imRun' = [ next EXCEPT !.downloads = @ \cup { filename } ]
                  /\ imgBlobs' = imgBlobs
             ELSE IF r.raised
             THEN /\ meta = "ok"
                  /\ imRun' = [ imRun EXCEPT !.pc = "raised",
                                             !.downloads = @ \cup { filename },
                                             !.cache_failed = @ \cup failed ]
                  /\ imgBlobs' = imgBlobs
             ELSE /\ ~r.uploaded => (put = "ok" /\ meta = "ok")
                  /\ imRun' = [ next EXCEPT !.processed_images[filename] = DownloadedImage(r),
                                            !.downloads = @ \cup { filename } ]
                  /\ imgBlobs' =
                       IF StoresVersionHash(r.uploaded, meta)
                       THEN [ r.store EXCEPT ![r.blob_url] =
                                SetBlobMetadata(@, r.image_hash, filename, Get(marker)) ]
                       ELSE r.store
    /\ UNCHANGED <<attachments, external, resolved>>
    /\ UNCHANGED <<detectVars, blobs, upCall, descVars, restVars>>

(***************************************************************************)
(* part 5: v2_description_generator.py, descriptions cached by image hash  *)
(***************************************************************************)
\* response.choices[0].message.content
Descriptions == { "", "a flowchart", "a table" }

ImageHashes == { compute_file_hash(<< 1 >>), compute_file_hash(<< 2 >>) }

\* info.get('image_hash', ''), None for the empty string
HashOptions == { None } \cup { Some(h) : h \in ImageHashes }

\* image_info of V2ImageManager, in the order of its items()
ImageInfos ==
    { << [ filename |-> FooPng, image_hash |-> a ],
         [ filename |-> FooBarPng, image_hash |-> b ] >> : a, b \in HashOptions }

\* generate_description: success with the text of the model, or the except branch
ModelResults ==
    [ success : { TRUE }, description : Descriptions ]
        \cup { [ success |-> FALSE, description |-> "" ] }

get_cached_descriptionUnguarded(cache, image_hash, read) == cache[image_hash]

\* get_cached_description: the stored record, None when there is none or
\* when exists() / download_blob() raises
get_cached_description(cache, image_hash, read) ==
    IF read = "ok" THEN cache[image_hash] ELSE None

IsCachedNever(cached) == FALSE

\* if cached and cached.get('description')
IsCached(cached) == cached # None /\ Get(cached).description # ""

\* cache_data of process_page_images
CacheData(description, image_hash, filename) ==
    Some([ description |-> description, image_hash |-> image_hash, filename |-> filename ])

NoDescriptions == [ f \in Filenames |-> None ]

FromCache(cached, image_hash) ==
    Some([ description |-> Get(cached).description, from_cache |-> TRUE,
           image_hash |-> image_hash ])

Generated(description, image_hash) ==
    Some([ description |-> description, from_cache |-> FALSE, image_hash |-> image_hash ])

AfterItem(items) == IF Len(items) > 1 THEN "running" ELSE "returned"

ReadOutcomes == {"ok", "raise"}
WriteOutcomes == {"ok", "raise"}

DescInit ==
    /\ descCache = [ h \in ImageHashes |-> None ]
    /\ descRun = [ pc |-> "idle", items |-> <<>>, descriptions |-> NoDescriptions,
                   last |-> None ]
    /\ modelled = {}
    /\ readFailed = FALSE

\* process_page_images up to its loop: descriptions = {}
\* (self.stats only feeds the printed report and is not part of the state)
StartDescriptions ==
    /\ descRun.pc # "running"
    /\ \E image_info \in ImageInfos :
         descRun' = [ pc |-> "running", items |-> image_info,
                      descriptions |-> NoDescriptions, last |-> None ]
    /\ UNCHANGED <<descCache, modelled, readFailed>>
    /\ UNCHANGED <<detectVars, uploadVars, imageStoreVars, imagesVars, restVars>>

\* one turn of the loop over image_info.items(); the call returns after the last
DescribeImage ==
    /\ descRun.pc = "running"
    /\ \E read \in ReadOutcomes, answer \in ModelResults, save \in WriteOutcomes :
         LET filename == Head(descRun.items).filename
             hash == Head(descRun.items).image_hash
             image_hash == Get(hash)
             cached == get_cached_description(descCache, image_hash, read)
             next == [ descRun EXCEPT !.pc = AfterItem(descRun.items), !.items = Tail(@) ]
             item == [ filename |-> filename, image_hash |-> image_hash, read |-> read,
                       stored |-> descCache[image_hash], called |-> ~IsCached(cached),
                       result |-> answer, again |-> image_hash \in modelled ]
         IN  IF hash = None
             THEN /\ read = "ok" /\ answer.description = "" /\ answer.success /\ save = "ok"
                  /\ descRun' = [ next EXCEPT !.last = None ]
                  /\ UNCHANGED <<descCache, modelled, readFailed>>
             ELSE /\ readFailed' = (readFailed \/ read = "raise")
                  /\ IF IsCached(cached)
                     THEN /\ answer.description = "" /\ answer.success /\ save = "ok"
                          /\ descRun' = [ next EXCEPT
                                            !.descriptions[filename] = FromCache(cached, image_hash),
                                            !.last = Some(item) ]
                          /\ UNCHANGED <<descCache, modelled>>
                     ELSE IF ~answer.success
                     THEN /\ save = "ok"
                          /\ descRun' = [ next EXCEPT !.last = Some(item) ]
                          /\ UNCHANGED <<descCache, modelled>>
                     ELSE IF save = "raise"
                     THEN /\ descRun' = [ descRun EXCEPT !.pc = "raised", !.last = Some(item) ]
                          /\ modelled' = modelled \cup { image_hash }
                          /\ UNCHANGED descCache
                     ELSE /\ descRun' = [ next EXCEPT
                                            !.descriptions[filename] =
                                                Generated(answer.description, image_hash),
                                            !.last = Some(item) ]
                          /\ modelled' = modelled \cup { image_hash }
                          /\ descCache' = [ descCache EXCEPT ![image_hash] =
                                              CacheData(answer.description, image_hash, filename) ]
    /\ UNCHANGED <<detectVars, uploadVars, imageStoreVars, imagesVars, restVars>>

(***************************************************************************)
(* part 6: confluence_content_extractor.py, the parser of the page body    *)
(***************************************************************************)
\* storage-format markup as a sequence of tags and words; an offset is a
\* number of tokens
H_OPEN == "<h1>"
H_CLOSE == "</h1>"
UL_OPEN == "<ul><li>"
UL_CLOSE == "</li></ul>"
TABLE_OPEN == "<table><tr><td>"
TABLE_CLOSE == "</td></tr></table>"
AC_IMAGE == "<ac:image><ri:attachment ri:filename=\"foo.png\"/></ac:image>"
WORD == "word"

MarkupTokens ==
    { H_OPEN, H_CLOSE, UL_OPEN, UL_CLOSE, TABLE_OPEN, TABLE_CLOSE, AC_IMAGE, WORD }

\* html[from:to]
Slice(html, from, to) == SubSeq(html, from + 1, to)

\* _clean_html: ac: elements and tags go, the words stay
clean_html(html) == SelectSeq(html, LAMBDA t : t = WORD)

\* the end of the shortest match of open.*?close that starts at offset
\* start, or 0 when there is none
MatchEnd(html, open, close, start) ==
    IF html[start + 1] = open /\ \E j \in start + 2..Len(html) : html[j] = close
    THEN CHOOSE j \in start + 2..Len(html) :
            /\ html[j] = close
            /\ \A k \in start + 2..j - 1 : html[k] # close
    ELSE 0

RECURSIVE Finditer(_, _, _, _, _)
\* re.finditer(r'<tag[^>]*>.*?</tag>', html, re.DOTALL) from offset start:
\* the matches from left to right, none of them overlapping another
Finditer(html, open, close, type, start) ==
    IF start >= Len(html) THEN <<>>
    ELSE IF open = AC_IMAGE /\ html[start + 1] = AC_IMAGE
    THEN << [ start |-> start, end |-> start + 1, type |-> type ] >>
            \o Finditer(html, open, close, type, start + 1)
    ELSE IF open # AC_IMAGE /\ MatchEnd(html, open, close, start) > 0
    THEN << [ start |-> start, end |-> MatchEnd(html, open, close, start), type |-> type ] >>
            \o Finditer(html, open, close, type, MatchEnd(html, open, close, start))
    ELSE Finditer(html, open, close, type, start + 1)

\* the elements list before elements.sort: images, headings, tables, lists
FoundElements(html) ==
    Finditer(html, AC_IMAGE, AC_IMAGE, "ac_image", 0)
        \o Finditer(html, H_OPEN, H_CLOSE, "heading", 0)
        \o Finditer(html, TABLE_OPEN, TABLE_CLOSE, "table", 0)
        \o Finditer(html, UL_OPEN, UL_CLOSE, "list", 0)

Unsorted(elements) == elements

RECURSIVE SortByStart(_)
\* elements.sort(key=lambda x: x[0]): stable
SortByStart(elements) ==
    IF elements = <<>> THEN <<>>
    ELSE LET first == CHOOSE i \in 1..Len(elements) :
                        /\ \A j \in 1..Len(elements) : elements[i].start <= elements[j].start
                        /\ \A j \in 1..i - 1 : elements[j].start # elements[i].start
         IN  << elements[first] >>
                \o SortByStart(SubSeq(elements, 1, first - 1)
                                 \o SubSeq(elements, first + 1, Len(elements)))

\* content_blocks.append({..., "index": len(self.content_blocks)}); span is
\* the part of the source the block was made from
Appended(blocks, type, content, from, to) ==
    Append(blocks, [ type |-> type, content |-> content, index |-> Len(blocks),
                     span |-> << from, to >> ])

\* _flush_text on the parser state [blocks, current_text, position, from]
FlushText(st) ==
    [ st EXCEPT !.blocks = IF st.current_text # <<>>
                           THEN Appended(@, "text", st.current_text, st.from, st.to)
                           ELSE @,
                !.current_text = <<>> ]

\* text_before = html[position:start], cleaned and added to current_text
TextBefore(html, st, upto) ==
    IF upto > st.position /\ clean_html(Slice(html, st.position, upto)) # <<>>
    THEN [ st EXCEPT !.current_text = @ \o clean_html(Slice(html, st.position, upto)),
                     !.from = st.position, !.to = upto ]
    ELSE st

\* _process_ac_image, _process_heading, _process_table, _process_list
ProcessElement(html, blocks, el) ==
    LET inner == clean_html(Slice(html, el.start + 1, el.end - 1))
    IN  IF el.type = "ac_image" THEN Appended(blocks, "image", <<>>, el.start, el.end)
        ELSE IF el.type = "table" THEN Appended(blocks, "table", inner, el.start, el.end)
        ELSE IF inner = <<>> THEN blocks
        ELSE Appended(blocks, el.type, inner, el.start, el.end)

RECURSIVE ProcessInOrder(_, _, _)
\* the loop of _parse_html over the sorted elements, and the remaining text
ProcessInOrder(html, elements, st) ==
    IF elements = <<>> THEN TextBefore(html, st, Len(html))
    ELSE LET el == Head(elements)
             flushed == FlushText(TextBefore(html, st, el.start))
         IN  ProcessInOrder(html, Tail(elements),
                 [ flushed EXCEPT !.blocks = ProcessElement(html, @, el),
                                  !.position = el.end ])

\* ConfluenceContentParser.parse(html_content)
parse(html_content) ==
    FlushText(ProcessInOrder(html_content, SortByStart(FoundElements(html_content)),
                  [ blocks |-> <<>>, current_text |-> <<>>, position |-> 0,
                    from |-> 0, to |-> 0 ])).blocks

ParserInit ==
    /\ markup = <<>>
    /\ parsed = None

\* the body of the page grows by one token
WriteMarkup ==
    /\ Len(markup) < MaxTokens
    /\ \E token \in MarkupTokens : markup' = Append(markup, token)
    /\ parsed' = None
    /\ UNCHANGED <<laterVars, storeVars, chunkVars, embedVars, pipelineVars>>

\* content_blocks = parser.parse(html_content)
ParseBody ==
    /\ parsed = None
    /\ parsed' = Some(parse(markup))
    /\ UNCHANGED markup
    /\ UNCHANGED <<laterVars, storeVars, chunkVars, embedVars, pipelineVars>>

(***************************************************************************)
(* part 7: azure_search_indexer.py, the chunkers                           *)
(***************************************************************************)
\* the texts of the blocks: their number of characters and of words
Texts == { "", "Intro", "Body" }
CharCount(text) == IF text = "" THEN 0 ELSE IF text = "Intro" THEN 5 ELSE 120
WordCount(text) == IF text = "" THEN 0 ELSE IF text = "Intro" THEN 1 ELSE 20

\* a block of document['content_blocks']; chars is the size of the rows of a
\* table joined with ' | ' and newlines
Block(type, content, items, chars) ==
    [ type |-> type, content |-> content, items |-> items, chars |-> chars ]

IndexedBlocks ==
    { Block("heading", text, <<>>, 0) : text \in { "Intro", "Body" } }
        \cup { Block("text", text, <<>>, 0) : text \in Texts }
        \cup { Block("list", "", items, 0) : items \in { <<>>, << "Intro" >> } }
        \cup { Block("table", "", <<>>, 12000), Block("image", "", <<>>, 0) }

is_heading_like(block) ==
    \/ block.type = "heading"
    \/ /\ block.type = "text"
       /\ CharCount(block.content) < 100 \/ WordCount(block.content) < 20

\* if section['heading']: neither None nor ''
HasHeading(section) == section.heading # None /\ Get(section.heading) # ""

SavedWithHeading(sections, current) ==
    IF HasHeading(current) THEN Append(sections, current) ELSE sections

\* if current_section['blocks'] or current_section['heading']
Saved(sections, current) ==
    IF current.blocks # <<>> \/ HasHeading(current)
    THEN Append(sections, current) ELSE sections

RECURSIVE Grouped(_, _, _, _)
\* the sections of the blocks from position i on; a section holds the
\* positions of its blocks
Grouped(content_blocks, i, sections, current) ==
    IF i > Len(content_blocks) THEN Saved(sections, current)
    ELSE IF is_heading_like(content_blocks[i])
    THEN Grouped(content_blocks, i + 1, Saved(sections, current),
                 [ heading |-> Some(content_blocks[i].content),
                   heading_level |-> IF content_blocks[i].type = "heading" THEN 2 ELSE 3,
                   blocks |-> << i >> ])
    ELSE Grouped(content_blocks, i + 1, sections,
                 [ current EXCEPT !.blocks = Append(@, i) ])

Sections(content_blocks) ==
    Grouped(content_blocks, 1, <<>>,
            [ heading |-> None, heading_level |-> 2, blocks |-> <<>> ])

\* one entry of content_parts: the block it renders, its length, and
\* whether it is only white space
Part(of, chars) == [ of |-> of, chars |-> chars, blank |-> chars = 0 ]

RECURSIVE Sum(_)
Sum(numbers) == IF numbers = <<>> THEN 0 ELSE Head(numbers) + Sum(Tail(numbers))

\* '\n'.join(f"• {item}" for item in items)
ItemsLen(items) ==
    IF items = <<>> THEN 0
    ELSE Sum([ k \in 1..Len(items) |-> 2 + CharCount(items[k]) ]) + Len(items) - 1

\* the text of block i outside a heading line: the content, the items, the
\* rows after "TABLE:\n", or "[IMAGE: image]"
BodyPart(content_blocks, i) ==
    LET block == content_blocks[i]
    IN  IF block.type \in { "heading", "text" } THEN Part(i, CharCount(block.content))
        ELSE IF block.type = "list" THEN Part(i, ItemsLen(block.items))
        ELSE IF block.type = "table" THEN Part(i, 7 + block.chars)
        ELSE Part(i, 14)

\* f"{'#' * level} {heading}"
HeadingPart(i, level, heading) == Part(i, level + 1 + CharCount(heading))

\* the content_parts a block of a section adds
BlockParts(content_blocks, section, i) ==
    IF \/ content_blocks[i].type = "heading"
       \/ /\ content_blocks[i].type = "text"
          /\ Some(content_blocks[i].content) = section.heading
    THEN <<>>
    ELSE << BodyPart(content_blocks, i) >>

RECURSIVE SectionParts(_, _, _)
SectionParts(content_blocks, section, k) ==
    IF k > Len(section.blocks) THEN <<>>
    ELSE BlockParts(content_blocks, section, section.blocks[k])
            \o SectionParts(content_blocks, section, k + 1)

\* content_parts of a section: the heading line, then the blocks
ContentParts(content_blocks, section) ==
    ( IF HasHeading(section)
      THEN << HeadingPart(section.blocks[1], section.heading_level, Get(section.heading)) >>
      ELSE <<>> )
        \o SectionParts(content_blocks, section, 1)

\* where part k starts in '\n\n'.join(content_parts)
PartStart(parts, k) == Sum([ j \in 1..k - 1 |-> parts[j].chars + 2 ])

JoinedLen(parts) ==
    IF parts = <<>> THEN 0 ELSE PartStart(parts, Len(parts)) + parts[Len(parts)].chars

IsBlankNever(parts) == FALSE

\* not content_text.strip()
IsBlank(parts) == \A k \in 1..Len(parts) : parts[k].blank

SectionCap == 10000

Larger(a, b) == IF a < b THEN b ELSE a

\* the length of a text cut to cap characters
Min(a, b) == IF a < b THEN a ELSE b

\* the blocks with some of their text in content_text[:cap]
Rendered(parts, cap) ==
    { parts[k].of : k \in { j \in 1..Len(parts) : PartStart(parts, j) < cap } }

EmbeddingOutcomes == { "ok", "none" }

\* the chunk of section number k, or None when the section is skipped
SectionChunk(content_blocks, section, k, embedding) ==
    LET parts == ContentParts(content_blocks, section)
    IN  IF IsBlank(parts) \/ embedding = "none" THEN None
        ELSE Some([ chunk_index |-> k - 1,
                    blocks |-> Rendered(parts, SectionCap),
                    content_text |-> Min(JoinedLen(parts), SectionCap) ])

\* chunk_document_semantic(document), embeddings[k] being what
\* generate_embedding returns for section k
chunk_document_semantic(content_blocks, embeddings) ==
    LET sections == Sections(content_blocks)
        made == [ k \in 1..Len(sections) |->
                    SectionChunk(content_blocks, sections[k], k, embeddings[k]) ]
        kept == SelectSeq(made, LAMBDA c : c # None)
    IN  [ fn |-> "chunk_document_semantic",
          sections |-> sections,
          embeddings |-> embeddings,
          chunks |-> [ k \in 1..Len(kept) |-> Get(kept[k]) ] ]

PageCap == 32000

\* the entries of one image in the images section: "### Image 1: image",
\* "**URL:** ", "**Type:** general" and ""
ImageEntry(i) == << Part(i, 18), Part(i, 9), Part(i, 17), Part(i, 0) >>

RECURSIVE ImagesSection(_, _)
ImagesSection(content_blocks, i) ==
    IF i > Len(content_blocks) THEN <<>>
    ELSE ( IF content_blocks[i].type = "image" THEN ImageEntry(i) ELSE <<>> )
            \o ImagesSection(content_blocks, i + 1)

\* content_parts of the whole page: "# <title>" with the 30 characters of
\* PAGE_TITLE, "", the blocks, and the
\* images section when the page has images; position 0 stands for the page
PageParts(content_blocks) ==
    << Part(0, 2 + 30), Part(0, 0) >>
        \o [ i \in 1..Len(content_blocks) |->
               IF content_blocks[i].type = "heading"
               THEN HeadingPart(i, 2, content_blocks[i].content)
               ELSE BodyPart(content_blocks, i) ]
        \o ( IF ImagesSection(content_blocks, 1) = <<>> THEN <<>>
             ELSE << Part(0, 30) >> \o ImagesSection(content_blocks, 1) )

\* chunk_document_whole_page(document), embedding being what
\* generate_embedding returns
chunk_document_whole_page(content_blocks, embedding) ==
    [ fn |-> "chunk_document_whole_page",
      sections |-> <<>>,
      embeddings |-> << embedding >>,
      chunks |-> IF content_blocks = <<>> \/ embedding = "none" THEN <<>>
                 ELSE << [ chunk_index |-> 0,
                           blocks |-> Rendered(PageParts(content_blocks), PageCap),
                           content_text |-> Min(JoinedLen(PageParts(content_blocks)), PageCap) ] >> ]

ChunkerInit ==
    /\ indexed = <<>>
    /\ chunked = None

\* the document gets one more block
AddBlock ==
    /\ Len(indexed) < MaxBlocks
    /\ \E block \in IndexedBlocks : indexed' = Append(indexed, block)
    /\ chunked' = None
    /\ UNCHANGED <<laterVars, storeVars, parserVars, embedVars, pipelineVars>>

\* index_page with the semantic chunker
IndexSemantic ==
    /\ chunked = None
    /\ \E embeddings \in [ 1..Len(Sections(indexed)) -> EmbeddingOutcomes ] :
         chunked' = Some(chunk_document_semantic(indexed, embeddings))
    /\ UNCHANGED indexed
    /\ UNCHANGED <<laterVars, storeVars, parserVars, embedVars, pipelineVars>>

\* index_page with the whole-page chunker
IndexWholePage ==
    /\ chunked = None
    /\ \E embedding \in EmbeddingOutcomes :
         chunked' = Some(chunk_document_whole_page(indexed, embedding))
    /\ UNCHANGED indexed
    /\ UNCHANGED <<laterVars, storeVars, parserVars, embedVars, pipelineVars>>

(***************************************************************************)
(* part 8: azure_search_indexer.py, generate_embedding                     *)
(***************************************************************************)
\* what openai_client.embeddings.create does: it returns, or raises with
\* one of these messages
Created == "ok"
ErrorMessages ==
    { "Error code: 429", "Rate limit reached for requests", "Error code: 400" }

IsAnyError(error_msg) == TRUE

\* "429" in error_msg or "rate limit" in error_msg.lower()
IsRateLimit(error_msg) ==
    error_msg \in { "Error code: 429", "Rate limit reached for requests" }

EmbeddingInit ==
    embedCall = [ pc |-> "idle", retry_count |-> 0, retry_delay |-> 2, attempt |-> 0,
                  outcomes |-> <<>>, slept |-> 0, result |-> None ]

RetryDelays == 1..3

\* generate_embedding(text, retry_count, retry_delay) is called
StartEmbedding ==
    /\ embedCall.pc # "loop"
    /\ \E retry_count \in 0..MaxRetryCount, retry_delay \in RetryDelays :
         embedCall' = [ pc |-> "loop", retry_count |-> retry_count,
                        retry_delay |-> retry_delay, attempt |-> 0,
                        outcomes |-> <<>>, slept |-> 0, result |-> None ]
    /\ UNCHANGED <<laterVars, storeVars, parserVars, chunkVars, pipelineVars>>

\* one turn of `for attempt in range(retry_count)`, or the return None
\* after the loop
EmbeddingAttempt ==
    /\ embedCall.pc = "loop"
    /\ IF embedCall.attempt >= embedCall.retry_count
       THEN embedCall' = [ embedCall EXCEPT !.pc = "returned", !.result = Some("None") ]
       ELSE \E outcome \in { Created } \cup ErrorMessages :
              LET called == [ embedCall EXCEPT !.outcomes = Append(@, outcome) ]
              IN  IF outcome = Created
                  THEN embedCall' = [ called EXCEPT !.pc = "returned",
                                                    !.result = Some("embedding") ]
                  ELSE IF /\ IsRateLimit(outcome)
                          /\ embedCall.attempt < embedCall.retry_count - 1
                  THEN embedCall' = [ called EXCEPT !.attempt = @ + 1,
                                                    !.slept =
                                        @ + embedCall.retry_delay * (embedCall.attempt + 1) ]
                  ELSE embedCall' = [ called EXCEPT !.pc = "returned",
                                                    !.result = Some("None") ]
    /\ UNCHANGED <<laterVars, storeVars, parserVars, chunkVars, pipelineVars>>

(***************************************************************************)
(* part 9: v2_pipeline.py and main.py, the runs over the list of pages     *)
(***************************************************************************)
PageIds == 1..MaxPages

\* the images of a page, in the order of its content blocks
PageImages == 1..2

\* what happens to one image in V2ImageManager.process_page_images: its
\* download fails (download_attachment returns False), or
\* upload_image_deduplicated raises, or it is stored
ImageEvents == { "stored", "download_failed", "upload_raises" }

\* what happens to one image in V2DescriptionGenerator.process_page_images:
\* generate_description fails, or save_description_cache raises, or the
\* description is generated and cached
DescriptionEvents == { "described", "call_failed", "cache_write_raises" }

V2Outcomes ==
    [ detect : { "no_changes", "changes", "raises" },
      fetch : { "ok", "none" },
      images : [ PageImages -> ImageEvents ],
      descriptions : [ PageImages -> DescriptionEvents ],
      upload : { "ok", "raises" } ]

\* the first image of todo whose event raises, or 0
FirstRaise(events, todo, raising) ==
    IF \E i \in todo : events[i] = raising
    THEN CHOOSE i \in todo :
            /\ events[i] = raising
            /\ \A j \in todo : events[j] = raising => i <= j
    ELSE 0

\* image_info of process_page_images: the images downloaded and stored
ImageInfo(o) == { i \in PageImages : o.images[i] = "stored" }

\* result['error'] = str(e): the step that raised and the image it was at
PageError(o, force) ==
    IF o.detect = "raises" THEN Some(<< "change_detection", 0 >>)
    ELSE IF o.detect = "no_changes" /\ ~force THEN None
    ELSE IF o.fetch = "none" THEN Some(<< "content_extraction", 0 >>)
    ELSE IF FirstRaise(o.images, PageImages, "upload_raises") # 0
    THEN Some(<< "image_processing", FirstRaise(o.images, PageImages, "upload_raises") >>)
    ELSE IF FirstRaise(o.descriptions, ImageInfo(o), "cache_write_raises") # 0
    THEN Some(<< "description_generation",
                 FirstRaise(o.descriptions, ImageInfo(o), "cache_write_raises") >>)
    ELSE IF o.upload = "raises" THEN Some(<< "blob_upload", 0 >>)
    ELSE None

V2Steps ==
    << "change_detection", "content_extraction", "image_processing",
       "description_generation", "blob_upload" >>

StepsBefore(step) ==
    SubSeq(V2Steps, 1, ( CHOOSE k \in 1..Len(V2Steps) : V2Steps[k] = step ) - 1)

\* V2Pipeline.process_page(page_id, force)
process_page(page_id, o, force) ==
    LET error == PageError(o, force)
        unchanged == o.detect = "no_changes" /\ ~force
    IN  [ page_id |-> page_id,
          success |-> error = None,
          has_changes |-> o.detect = "changes" \/ ( o.detect # "raises" /\ force ),
          steps_completed |-> IF error # None THEN StepsBefore(Get(error)[1])
                              ELSE IF unchanged THEN << "change_detection" >>
                              ELSE V2Steps,
          error |-> error ]

MainOutcomes ==
    [ detect : { "no_changes", "changes", "raises" },
      extract : { "ok", "none", "raises" },
      describe : { "ok", "none", "raises" },
      upload : { "ok", "fails" },
      index : { "ok", "fails" } ]

\* whether main.process_single_page raises: step 1, 2 and 3 call their
\* module with no try around it
SinglePageRaises(o, force_reprocess) ==
    \/ o.detect = "raises"
    \/ /\ o.detect = "changes" \/ force_reprocess
       /\ o.extract = "raises" \/ o.describe = "raises"

\* main.process_single_page(page, force_reprocess) when it returns
process_single_page(page_id, o, force_reprocess) ==
    LET need_full_pipeline == o.detect = "changes" \/ force_reprocess
        steps == << [ name |-> "extract_content", ok |-> o.extract = "ok" ],
                    [ name |-> "describe_images", ok |-> o.describe = "ok" ],
                    [ name |-> "upload_blob", ok |-> o.upload = "ok" ],
                    [ name |-> "index_search", ok |-> o.index = "ok" ] >>
        ran == IF need_full_pipeline THEN steps ELSE <<>>
        errors == SelectSeq(ran, LAMBDA step : ~step.ok)
    IN  [ page_id |-> page_id,
          status |-> IF errors = <<>> THEN "success" ELSE "partial_success",
          has_changes |-> o.detect = "changes",
          steps_completed |-> << [ name |-> "detect_changes", ok |-> TRUE ] >>
                                 \o SelectSeq(ran, LAMBDA step : step.ok),
          errors |-> errors ]

PipelineInit ==
    batch = [ fn |-> "", pc |-> "idle", force |-> FALSE, next |-> 1,
              results |-> <<>>, raised_at |-> 0 ]

\* process_multiple_pages(page_ids, force) or run_pipeline(force_reprocess)
\* is called
StartBatch ==
    /\ batch.pc # "pages"
    /\ \E fn \in { "process_multiple_pages", "run_pipeline" }, force \in BOOLEAN :
         batch' = [ fn |-> fn, pc |-> "pages", force |-> force, next |-> 1,
                    results |-> <<>>, raised_at |-> 0 ]
    /\ UNCHANGED <<laterVars, storeVars, parserVars, chunkVars, embedVars>>

\* one turn of `for page_id in page_ids` in process_multiple_pages
ProcessNextPage ==
    /\ batch.fn = "process_multiple_pages"
    /\ batch.pc = "pages"
    /\ batch.next \in PageIds
    /\ \E o \in V2Outcomes :
         batch' = [ batch EXCEPT !.results = Append(@, process_page(batch.next, o, batch.force)),
                                 !.next = @ + 1 ]
    /\ UNCHANGED <<laterVars, storeVars, parserVars, chunkVars, embedVars>>

\* one turn of `for page in pages` in run_pipeline: an exception leaves the
\* loop for the except clause of run_pipeline
RunPipelinePage ==
    /\ batch.fn = "run_pipeline"
    /\ batch.pc = "pages"
    /\ batch.next \in PageIds
    /\ \E o \in MainOutcomes :
         IF SinglePageRaises(o, batch.force)
         THEN batch' = [ batch EXCEPT !.pc = "failed", !.raised_at = batch.next ]
         ELSE batch' = [ batch EXCEPT
                           !.results = Append(@, process_single_page(batch.next, o, batch.force)),
                           !.next = @ + 1 ]
    /\ UNCHANGED <<laterVars, storeVars, parserVars, chunkVars, embedVars>>

\* the loop over the pages is over
FinishBatch ==
    /\ batch.pc = "pages"
    /\ batch.next \notin PageIds
    /\ batch' = [ batch EXCEPT !.pc = "done" ]
    /\ UNCHANGED <<laterVars, storeVars, parserVars, chunkVars, embedVars>>

(***************************************************************************)
(* part 10: v2_storage_manager.py, update_page_metadata                    *)
(***************************************************************************)
\* the read of the existing metadata.json: exists/download_blob/json.loads
\* return, or one of them raises
MetadataReads == {"ok", "fails"}
MetadataUploads == {"ok", "raises"}

\* the metadata a first call starts from; it has no latest_version yet
NewMetadata == [ versions |-> <<>>, latest_version |-> None ]

\* the try block: the stored metadata when the blob exists and is read, the
\* new metadata when the blob does not exist and also when the read raises
LoadedMetadata(stored, read) ==
    IF read = "ok" /\ stored # None THEN Get(stored) ELSE NewMetadata

existing_versions(metadata) ==
    { metadata.versions[i].version : i \in 1..Len(metadata.versions) }

UpdatedMetadata(metadata, version) ==
    [ versions |-> IF version \notin existing_versions(metadata)
                   THEN Append(metadata.versions, [ version |-> version ])
                   ELSE metadata.versions,
      latest_version |-> Some(version) ]

MetadataInit ==
    /\ metadataBlob = None
    /\ metaCall = None
    /\ versionsPassed = {}

\* update_page_metadata(space_key, page_id, page_title, version): the upload
\* is not guarded, so when it raises the blob stays and the call raises
update_page_metadata ==
    \E version \in 1..MaxConfluenceVersion, read \in MetadataReads,
       upload \in MetadataUploads :
        LET metadata == UpdatedMetadata(LoadedMetadata(metadataBlob, read), version)
        IN /\ metadataBlob' = IF upload = "ok" THEN Some(metadata) ELSE metadataBlob
           /\ metaCall' = Some([ version |-> version, read |-> read,
                                 pre |-> metadataBlob, raised |-> upload # "ok" ])
           /\ versionsPassed' = IF upload = "ok" THEN versionsPassed \cup {version}
                                ELSE versionsPassed
           /\ UNCHANGED <<earlierVars, statsVars, attachVars, stepsVars, indexVars, mailVars>>

(***************************************************************************)
(* part 11: v2_pipeline.py, the counters of process_multiple_pages         *)
(***************************************************************************)
\* what one page does to the counters: whether it is processed at all, how
\* many of its images are downloaded and how many come from the cache,
\* whether the image step raises after them, and the same for descriptions
PageCounts == 0..1
StatsOutcomes ==
    [ has_changes : BOOLEAN, downloaded : PageCounts, skipped_cached : PageCounts,
      images : {"ok", "raises"}, generated : PageCounts, from_cache : PageCounts ]

StatsInit ==
    /\ pipelineStats = [ images_downloaded |-> 0, images_cached |-> 0,
                         descriptions_generated |-> 0, descriptions_cached |-> 0 ]
    /\ downloadStats = [ downloaded |-> 0, skipped_cached |-> 0 ]
    /\ generatorStats = [ generated |-> 0, from_cache |-> 0 ]
    /\ pageEvents = [ downloaded |-> 0, skipped_cached |-> 0,
                      generated |-> 0, from_cache |-> 0 ]
    /\ pagesDone = 0

\* V2ImageManager.process_page_images adds the page's events to its counters,
\* which are set to zero in __init__ only
CountedDownloads(o) ==
    [ downloaded |-> downloadStats.downloaded + o.downloaded,
      skipped_cached |-> downloadStats.skipped_cached + o.skipped_cached ]

\* V2DescriptionGenerator.process_page_images does the same with its own
CountedDescriptions(o) ==
    [ generated |-> generatorStats.generated + o.generated,
      from_cache |-> generatorStats.from_cache + o.from_cache ]

\* step 3 of process_page: stats += the image manager's counters
AfterImageStep(stats, download_stats) ==
    [ stats EXCEPT !.images_downloaded = @ + download_stats.downloaded,
                   !.images_cached = @ + download_stats.skipped_cached ]

\* step 4 of process_page: stats += the description generator's counters
AfterDescriptionStep(stats, generator_stats) ==
    [ stats EXCEPT !.descriptions_generated = @ + generator_stats.generated,
                   !.descriptions_cached = @ + generator_stats.from_cache ]

\* one round of the loop of process_multiple_pages: process_page for the next
\* page; a page without changes returns before step 3, and a raise in step 3
\* is caught by process_page after the image manager has counted
ProcessPageStats ==
    /\ pagesDone < MaxPages
    /\ \E o \in StatsOutcomes :
        LET step3 == o.has_changes
            step4 == o.has_changes /\ o.images = "ok"
        IN /\ downloadStats' = IF step3 THEN CountedDownloads(o) ELSE downloadStats
           /\ generatorStats' = IF step4 THEN CountedDescriptions(o) ELSE generatorStats
           /\ pipelineStats' =
                IF step4
                THEN AfterDescriptionStep(AfterImageStep(pipelineStats, downloadStats'),
                                          generatorStats')
                ELSE pipelineStats
           /\ pageEvents' =
                [ downloaded |-> pageEvents.downloaded + (IF step3 THEN o.downloaded ELSE 0),
                  skipped_cached |-> pageEvents.skipped_cached
                                        + (IF step3 THEN o.skipped_cached ELSE 0),
                  generated |-> pageEvents.generated + (IF step4 THEN o.generated ELSE 0),
                  from_cache |-> pageEvents.from_cache + (IF step4 THEN o.from_cache ELSE 0) ]
    /\ pagesDone' = pagesDone + 1
    /\ UNCHANGED <<earlierVars, metaVars, attachVars, stepsVars, indexVars, mailVars>>

(***************************************************************************)
(* part 12: v2_pipeline.py, attaching the image results to the blocks      *)
(***************************************************************************)
MaxImageBlocks == 3

\* os.path.basename of the path of a URL, the path given by its segments
basename(url_path) == url_path[Len(url_path)]

\* the image references a page body can hold: an attachment, and external
\* URLs of which two end in the same name
AttachmentRef(filename) ==
    [ source |-> "attachment", filename |-> filename, external_url |-> <<>> ]
ExternalRef(url_path) ==
    [ source |-> "external_url", filename |-> basename(url_path),
      external_url |-> url_path ]
PageImageRefs ==
    { AttachmentRef("foo.png"), ExternalRef(<<"a", "foo.png">>),
      ExternalRef(<<"b", "foo.png">>), ExternalRef(<<"a", "bar.png">>) }
PageFilenames == { ref.filename : ref \in PageImageRefs }

\* the image behind a reference, by the SHA-256 of its bytes: every
\* attachment and every URL serves an image of its own
ServedImage(block) ==
    IF block.source = "attachment" THEN 1
    ELSE IF block.external_url = <<"a", "foo.png">> THEN 2
    ELSE IF block.external_url = <<"b", "foo.png">> THEN 3
    ELSE 4

\* the blob an image is stored in, named by its hash and its filename
BlobUrl(image_hash, filename) == << image_hash, filename >>
\* the text the model or the description cache gives for an image
DescriptionOf(image_hash) == << "description of", image_hash >>

\* V2ImageManager.process_page_images: processed_images[filename] is set for
\* every block whose image is in the cache or downloaded, and left alone for
\* a block whose download fails
RECURSIVE ProcessedImages(_, _, _)
ProcessedImages(blocks, fetched, k) ==
    IF k = 0 THEN [ filename \in PageFilenames |-> None ]
    ELSE LET before == ProcessedImages(blocks, fetched, k - 1)
             block == blocks[k]
         IN IF fetched[k]
            THEN [ before EXCEPT ![block.filename] =
                     Some([ blob_url |-> BlobUrl(ServedImage(block), block.filename),
                            image_hash |-> ServedImage(block) ]) ]
            ELSE before

\* V2DescriptionGenerator.process_page_images: descriptions[filename] for the
\* entries of image_info whose image gets a text
PageDescriptions(image_info, undescribed) ==
    [ filename \in PageFilenames |->
        IF image_info[filename] # None /\ filename \notin undescribed
        THEN Some(DescriptionOf(Get(image_info[filename]).image_hash))
        ELSE None ]

\* the two loops of process_page over the blocks, after step 3 and step 4
AttachedBlock(block, image_info, descriptions) ==
    [ block |-> block,
      blob_url |-> IF image_info[block.filename] # None
                   THEN Some(Get(image_info[block.filename]).blob_url) ELSE None,
      image_hash |-> IF image_info[block.filename] # None
                     THEN Some(Get(image_info[block.filename]).image_hash) ELSE None,
      description |-> descriptions[block.filename] ]

AttachInit ==
    /\ imageBlocks = <<>>
    /\ attachedBlocks = None

\* an image is put at the end of the page body
AddImageBlock ==
    /\ Len(imageBlocks) < MaxImageBlocks
    /\ \E ref \in PageImageRefs : imageBlocks' = Append(imageBlocks, ref)
    /\ attachedBlocks' = None
    /\ UNCHANGED <<earlierVars, metaVars, statsVars, stepsVars, indexVars, mailVars>>

\* steps 3 and 4 of process_page over the blocks of the page
AttachImageResults ==
    /\ imageBlocks # <<>>
    /\ \E fetched \in [ 1..Len(imageBlocks) -> BOOLEAN ],
          undescribed \in SUBSET PageFilenames :
        LET image_info == ProcessedImages(imageBlocks, fetched, Len(imageBlocks))
            descriptions == PageDescriptions(image_info, undescribed)
        IN attachedBlocks' =
             Some([ i \in 1..Len(imageBlocks) |->
                      AttachedBlock(imageBlocks[i], image_info, descriptions) ])
    /\ UNCHANGED <<imageBlocks, earlierVars, metaVars, statsVars, stepsVars, indexVars, mailVars>>

(***************************************************************************)
(* part 13: v2_pipeline.py, process_page after the change detection        *)
(***************************************************************************)
\* how steps 2 to 5 end when they are run: the document is uploaded, or one
\* of them raises and process_page returns the error
LaterStepOutcomes == {"uploaded", "failed"}

StepsInit ==
    /\ pageSteps = [ at |-> 0, outcome |-> "none", content_hash |-> None ]
    /\ processedHashes = {}

\* step 1 has returned and the rest of process_page has not run yet
StepsPending == run # None /\ result # None /\ Get(run).at > pageSteps.at
StepsSettled == ~StepsPending

\* process_page(page_id, force=False) after step 1: without changes it
\* returns at once, with changes it runs steps 2 to 5
RunLaterSteps ==
    /\ StepsPending
    /\ \E later \in LaterStepOutcomes :
        LET outcome == IF Get(result).has_changes THEN later ELSE "skipped"
        IN /\ Get(result).has_changes \/ later = "uploaded"
           /\ pageSteps' = [ at |-> Get(run).at, outcome |-> outcome,
                             content_hash |-> Some(Get(run).content_hash) ]
           /\ processedHashes' = IF outcome = "uploaded"
                                 THEN processedHashes \cup {Get(run).content_hash}
                                 ELSE processedHashes
    /\ UNCHANGED <<earlierVars, metaVars, statsVars, attachVars, indexVars, mailVars>>

(***************************************************************************)
(* part 14: azure_search_indexer.py, index_single_page                     *)
(***************************************************************************)
\* the document.json of the page in blob storage: missing, unreadable, or of
\* some version with one or two sections
IndexedVersions == 1..2
SectionCounts == 1..2
StoredBlobs == {"found", "missing", "unreadable"}
StoredDocuments ==
    { doc \in [ blob : StoredBlobs, version : IndexedVersions, sections : SectionCounts ] :
        doc.blob # "found" => doc.version = 1 /\ doc.sections = 1 }

\* the search for the page's chunks raises, the delete request raises, or
\* both return
DeleteOutcomes == {"ok", "search_raises", "delete_raises"}
\* upload_documents returns, or raises until the retries are used up
IndexUploads == {"ok", "fails"}

\* chunk_id = f"{page_id}_v{version}_section_{section_idx:03d}"
ChunkId(page_id, version, section_idx) == << page_id, version, section_idx >>

PageChunks(index, page_id) == { chunk_id \in index : chunk_id[1] = page_id }

\* delete_page_chunks(page_id): whatever raises is caught and 0 is returned
delete_page_chunks(index, page_id, outcome) ==
    IF outcome = "ok" THEN index \ PageChunks(index, page_id) ELSE index

\* the chunk_ids of chunk_document(document), one chunk per section
ChunkIdsOf(page_id, doc) ==
    { ChunkId(page_id, doc.version, section_idx) :
        section_idx \in 0..(doc.sections - 1) }

IndexInit ==
    /\ searchIndex = {}
    /\ indexCall = None

\* index_single_page(page_id, space_key, delete_existing=True)
index_single_page ==
    \E page_id \in PageIds, doc \in StoredDocuments,
       deleting \in DeleteOutcomes, upload \in IndexUploads :
        LET kept == delete_page_chunks(searchIndex, page_id, deleting)
            found == doc.blob = "found"
            uploaded == IF found /\ upload = "ok" THEN ChunkIdsOf(page_id, doc) ELSE {}
        IN /\ found \/ upload = "ok"
           /\ searchIndex' = kept \cup uploaded
           /\ indexCall' = Some([ page_id |-> page_id, before |-> searchIndex,
                                  deleting |-> deleting, uploaded |-> uploaded,
                                  total_indexed |-> Cardinality(uploaded) ])
           /\ UNCHANGED <<earlierVars, metaVars, statsVars, attachVars, stepsVars, mailVars>>

(***************************************************************************)
(* part 15: email_sender.py, send_email_via_logic_app                      *)
(***************************************************************************)
\* what requests.post does: it returns a response with a status code, or it
\* raises requests.exceptions.Timeout or some other exception
Responded(status_code) == [ raised |-> "none", status_code |-> status_code ]
Raised(exception) == [ raised |-> exception, status_code |-> 0 ]
PostOutcomes ==
    { Responded(status_code) : status_code \in {200, 202, 302, 400, 404, 500, 503} }
        \cup { Raised("Timeout"), Raised("ConnectionError") }

IsSent(status_code) == status_code \in {200, 202}
\* mutation of IsServerError: client errors count as server errors too
IsServerErrorFrom400(status_code) == status_code >= 400
IsServerError(status_code) == status_code >= 500

\* time.sleep(2 ** attempt)
Backoff(attempt) == 2 ^ attempt

MailInit ==
    mailCall = [ pc |-> "idle", max_retries |-> 0, outcomes |-> <<>>,
                 slept |-> 0, status |-> "", attempts |-> None,
                 response_code |-> None ]

\* send_email_via_logic_app(to_email, subject, html_body, max_retries) up to
\* the loop: without LOGIC_APP_EMAIL_URL it returns an error at once, and with
\* max_retries = 0 the loop has no round
StartEmail ==
    /\ mailCall.pc # "running"
    /\ \E configured \in BOOLEAN, max_retries \in 0..MaxRetryCount :
        /\ ~configured => max_retries = MaxRetryCount
        /\ mailCall' = [ pc |-> IF configured /\ max_retries > 0
                                THEN "running" ELSE "returned",
                         max_retries |-> max_retries, outcomes |-> <<>>,
                         slept |-> 0,
                         status |-> IF configured /\ max_retries > 0 THEN "" ELSE "error",
                         attempts |-> IF configured /\ max_retries = 0
                                      THEN Some(max_retries) ELSE None,
                         response_code |-> None ]
    /\ UNCHANGED <<earlierVars, metaVars, statsVars, attachVars, stepsVars, indexVars>>

\* one round of the loop: the POST and what follows from its outcome
EmailAttempt ==
    /\ mailCall.pc = "running"
    /\ \E o \in PostOutcomes :
        LET attempt == Len(mailCall.outcomes)
            outcomes == Append(mailCall.outcomes, o)
            more == attempt < mailCall.max_retries - 1
            again == [ mailCall EXCEPT !.outcomes = outcomes,
                                       !.slept = @ + Backoff(attempt) ]
            given_up == [ mailCall EXCEPT !.pc = "returned", !.outcomes = outcomes,
                                          !.status = "error",
                                          !.attempts = Some(mailCall.max_retries) ]
        IN mailCall' =
             IF o.raised = "none" /\ IsSent(o.status_code)
             THEN [ mailCall EXCEPT !.pc = "returned", !.outcomes = outcomes,
                                    !.status = "success",
                                    !.attempts = Some(attempt + 1),
                                    !.response_code = Some(o.status_code) ]
             ELSE IF o.raised = "none" /\ ~IsServerError(o.status_code)
             THEN [ mailCall EXCEPT !.pc = "returned", !.outcomes = outcomes,
                                    !.status = "error",
                                    !.response_code = Some(o.status_code) ]
             ELSE IF more THEN again ELSE given_up
    /\ UNCHANGED <<earlierVars, metaVars, statsVars, attachVars, stepsVars, indexVars>>

(***************************************************************************)
(* Specifications.                                                         *)
(***************************************************************************)
Init ==
    /\ DetectInit /\ UploadInit /\ ImageStoreInit /\ ImagesInit /\ DescInit
    /\ ParserInit /\ ChunkerInit /\ EmbeddingInit /\ PipelineInit
    /\ MetadataInit /\ StatsInit /\ AttachInit /\ StepsInit /\ IndexInit
    /\ MailInit

DetectNext == EditPage \/ DetectChanges \/ DetectFetchFails

SpecDetect == Init /\ [][DetectNext]_vars

UploadNext == upload_content_if_changed \/ upload_if_changed \/ upload_page_version

SpecUpload == Init /\ [][UploadNext]_vars

PageDocNext == EditPage \/ UploadPageDocument

SpecPageDoc == Init /\ [][PageDocNext]_vars

ImageStoreNext == upload_image_deduplicated \/ upload_page_version

SpecImageStore == Init /\ [][ImageStoreNext]_vars

ImagesNext == UpdateAttachment \/ ChangeExternalImage \/ StartImages \/ ProcessImageBlock

SpecImages == Init /\ [][ImagesNext]_vars

DescNext == StartDescriptions \/ DescribeImage

SpecDesc == Init /\ [][DescNext]_vars

\* the cache layer, one of its users at work at a time
CacheReadsNext ==
    \/ ImageStoreInit /\ ImagesInit /\ DescInit /\ UploadNext
    \/ blobs = [ path \in BlobPaths |-> None ] /\ ImagesInit /\ DescInit
          /\ upload_image_deduplicated
    \/ upCall = None /\ DescInit /\ ImagesNext
    \/ upCall = None /\ ImagesInit /\ ImageStoreInit /\ DescNext

SpecCacheReads == Init /\ [][CacheReadsNext]_vars

ParserNext == WriteMarkup \/ ParseBody

SpecParser == Init /\ [][ParserNext]_vars

ChunkerNext == AddBlock \/ IndexSemantic \/ IndexWholePage

SpecChunker == Init /\ [][ChunkerNext]_vars

EmbeddingNext == StartEmbedding \/ EmbeddingAttempt

\* a call that has started goes on: the loop has no wait but time.sleep
SpecEmbedding == Init /\ [][EmbeddingNext]_vars /\ WF_vars(EmbeddingAttempt)

PipelineNext == StartBatch \/ ProcessNextPage \/ RunPipelinePage \/ FinishBatch

SpecPipeline == Init /\ [][PipelineNext]_vars

MetadataNext == update_page_metadata

SpecMetadata == Init /\ [][MetadataNext]_vars

StatsNext == ProcessPageStats

SpecStats == Init /\ [][StatsNext]_vars

AttachNext == AddImageBlock \/ AttachImageResults

SpecAttach == Init /\ [][AttachNext]_vars

\* the runs over one page, the snapshot store working: the page is edited
\* between runs, and every run is step 1 followed by the rest of process_page
PageRunsNext ==
    \/ StepsSettled /\ EditPage
    \/ StepsSettled /\ DetectChanges /\ Get(run').load = "ok" /\ Get(run').save \in {"ok", "not_called"}
    \/ RunLaterSteps

SpecPageRuns == Init /\ [][PageRunsNext]_vars

IndexNext == index_single_page

SpecIndex == Init /\ [][IndexNext]_vars

MailNext == StartEmail \/ EmailAttempt

SpecMail == Init /\ [][MailNext]_vars

(***************************************************************************)
(* Claims on the change detector.                                          *)
(***************************************************************************)
ReadOk == run # None /\ Get(run).load = "ok"
HashChanged ==
    /\ run # None
    /\ Get(run).pre # None
    /\ Get(run).content_hash # Get(Get(run).pre).content_hash

\* C1: a run whose snapshot read and write succeed and that observes a hash
\* different from the stored one returns and stores the stored version
\* number plus one; with the store working no run moves the stored version
\* by more than one.
C1_VersionIncrementsByOne ==
    /\ (ReadOk /\ HashChanged /\ Get(run).save = "ok") =>
          /\ Get(result).version_number = Get(Get(run).pre).version_number + 1
          /\ snapshot # None
          /\ Get(snapshot).version_number = Get(Get(run).pre).version_number + 1
    /\ (ReadOk /\ Get(run).pre # None /\ Get(run).save \in {"ok", "not_called"}) =>
          /\ snapshot # None
          /\ Get(snapshot).version_number - Get(Get(run).pre).version_number \in {0, 1}

C1_Witness ==
    /\ ReadOk /\ HashChanged /\ Get(run).save = "ok"
    /\ Get(Get(run).pre).version_number = 2
    /\ Get(snapshot).version_number = 3

\* C2: the version number a run returns and stores is never lower than the
\* version number of the snapshot stored before the run, whatever the read
\* of the previous snapshot gave.
C2_VersionNeverDecreases ==
    (run # None /\ Get(run).pre # None) =>
        /\ Get(result).version_number >= Get(Get(run).pre).version_number
        /\ snapshot # None
        /\ Get(snapshot).version_number >= Get(Get(run).pre).version_number

SameContentTwice ==
    /\ run # None
    /\ prevRun # None
    /\ Get(run).content_hash = Get(prevRun).content_hash

ReportsNoChange ==
    /\ Get(result).has_changes = FALSE
    /\ Get(result).needs_reprocessing = FALSE
    /\ Get(result).change_summary = NoChangesDetected
    /\ Get(result).version_number = Get(prevRun).version_number

FirstRunResult ==
    /\ Get(result).has_changes = TRUE
    /\ Get(result).version_number = 1
    /\ Get(result).previous_version = None
    /\ Get(result).change_summary = InitialExtraction

\* C4 as claimed: with no snapshot stored the run returns the first-run
\* result and stores a snapshot with version number 1.
C4_FirstRunStoresVersionOne ==
    (run # None /\ Get(run).pre = None) =>
        /\ FirstRunResult
        /\ snapshot # None
        /\ Get(snapshot).version_number = 1

\* C4 as amended: with no snapshot stored the run returns the first-run
\* result; it stores a snapshot with version number 1 when the upload of
\* the snapshot blob succeeds and leaves the store empty when it fails.
C4_FirstRunStoresVersionOneIfSaved ==
    (run # None /\ Get(run).pre = None) =>
        /\ FirstRunResult
        /\ Get(run).save \in {"ok", "fail_history"} =>
              /\ snapshot # None
              /\ Get(snapshot).version_number = 1
              /\ Get(snapshot).content_hash = Get(run).content_hash
        /\ Get(run).save = "fail" => snapshot = None

C4_Witness ==
    /\ run # None
    /\ Get(run).pre = None
    /\ Get(run).save = "ok"
    /\ FirstRunResult
    /\ snapshot # None
    /\ Get(snapshot).version_number = 1

\* C5: every completed run whose save did not fail, a run that reports no
\* change included, leaves in the store the snapshot it computed, with the
\* extracted_at of this run.
C5_EveryRunRefreshesSnapshot ==
    (run # None /\ Get(run).save \in {"ok", "fail_history", "not_called"}) =>
        /\ snapshot # None
        /\ Get(snapshot).extracted_at = Get(run).at

\* the run before the last one observed a changed hash and did not get its
\* snapshot stored, and the last run saw the same content
ChangeNotSaved ==
    /\ SameContentTwice
    /\ Get(run).pre # None
    /\ Get(prevRun).has_changes
    /\ ~Get(prevRun).wrote
    /\ Get(prevRun).version_number = Get(Get(run).pre).version_number + 1

\* C13: a run that observes a changed hash and whose snapshot upload fails
\* still returns has_changes=True with the stored version number plus one,
\* and the next run over the same content returns has_changes=True with
\* that same version number.
C13_FailedSaveRedetects ==
    /\ (ReadOk /\ HashChanged /\ Get(run).save = "fail") =>
          /\ Get(result).has_changes
          /\ Get(result).version_number = Get(Get(run).pre).version_number + 1
    /\ ChangeNotSaved =>
          /\ Get(result).has_changes
          /\ Get(result).version_number = Get(prevRun).version_number

(***************************************************************************)
(* Claims on the uploads that skip unchanged content.                      *)
(***************************************************************************)
Returned == upCall # None /\ ~Get(upCall).raised

SameContentAgain ==
    /\ Returned
    /\ Get(upCall).pre # None
    /\ Get(Get(upCall).pre).bytes = Get(upCall).content

OtherContent ==
    /\ Returned
    /\ Get(upCall).pre # None
    /\ Get(Get(upCall).pre).bytes # Get(upCall).content

StoresNewHash ==
    /\ Get(upCall).uploaded = TRUE
    /\ blobs[Get(upCall).path] # None
    /\ Get(blobs[Get(upCall).path]).bytes = Get(upCall).content
    /\ Get(blobs[Get(upCall).path]).content_md5
          = Some(compute_content_hash(Get(upCall).content))

\* C6 as claimed: a call with the content the blob already holds returns
\* uploaded=False and leaves the blob and its content_md5 as they were; a
\* call with different content returns uploaded=True and leaves the hash of
\* the new content in content_md5.
C6_SecondUploadSkipped ==
    /\ SameContentAgain =>
          /\ Get(upCall).uploaded = FALSE
          /\ blobs[Get(upCall).path] = Get(upCall).pre
    /\ OtherContent => StoresNewHash

\* C6 as amended: the call with the same content returns uploaded=False
\* when its existence and metadata check succeeds; when that check raises
\* it uploads the same bytes again and returns uploaded=True; either way
\* the bytes and content_md5 of the blob keep their values.
C6_SecondUploadSkippedWhenChecked ==
    /\ SameContentAgain =>
          /\ Get(upCall).uploaded = (Get(upCall).check # "ok")
          /\ blobs[Get(upCall).path] = Get(upCall).pre
    /\ OtherContent => StoresNewHash

C6_Witness ==
    /\ SameContentAgain
    /\ Get(upCall).fn = "upload_content_if_changed"
    /\ Get(upCall).check = "ok"
    /\ Get(upCall).uploaded = FALSE
    /\ blobs[Get(upCall).path] = Get(upCall).pre

\* the content_blocks part of a stored page document
BlocksOf(bytes) == SubSeq(bytes, 5, Len(bytes))

\* the page documents that were stored when the last call began
StoredBefore ==
    { Get(blobs[VersionBlobPath(v)]) :
        v \in { w \in 1..MaxConfluenceVersion :
                  /\ VersionBlobPath(w) # Get(upCall).path
                  /\ blobs[VersionBlobPath(w)] # None } }
      \cup ( IF Get(upCall).pre = None THEN {} ELSE { Get(Get(upCall).pre) } )

\* C11: the upload of the page document is skipped when a document with the
\* same content is already stored for the page, also under a new page
\* version number.
C11_SameDocumentSkipped ==
    ( /\ Returned
      /\ \E stored \in StoredBefore :
            BlocksOf(stored.bytes) = BlocksOf(Get(upCall).content) ) =>
        Get(upCall).uploaded = FALSE

(***************************************************************************)
(* Claims on the description cache.                                        *)
(***************************************************************************)
Described == descRun.last # None

LastItem == Get(descRun.last)

StoredText ==
    /\ LastItem.stored # None
    /\ Get(LastItem.stored).description # ""

\* an image whose hash has a stored non-empty description is not sent to
\* the model and gets the stored text
StoredTextReused ==
    (LastItem.read = "ok" /\ StoredText) =>
        /\ ~LastItem.called
        /\ descRun.descriptions[LastItem.filename]
              = Some([ description |-> Get(LastItem.stored).description,
                       from_cache |-> TRUE, image_hash |-> LastItem.image_hash ])

\* a successful model call has written its record when its description is
\* returned; when the write raises nothing is returned
GeneratedTextStored ==
    (LastItem.called /\ LastItem.result.success) =>
        IF descRun.pc = "raised"
        THEN descRun.descriptions[LastItem.filename] = None
        ELSE /\ descCache[LastItem.image_hash] # None
             /\ Get(descCache[LastItem.image_hash]).description
                   = LastItem.result.description
             /\ descRun.descriptions[LastItem.filename]
                   = Generated(LastItem.result.description, LastItem.image_hash)

\* C7 as claimed: while the reads of the description cache succeed, the
\* model is called successfully at most once for an image hash, a hash with
\* a stored non-empty description gets the stored text without a model
\* call, and a successful model call writes its record before its
\* description is returned.
C7_ModelCalledOncePerHash ==
    (Described /\ ~readFailed) =>
        /\ (LastItem.called /\ LastItem.result.success) => ~LastItem.again
        /\ StoredTextReused
        /\ GeneratedTextStored

\* C7 as amended: the model is called for an image hash only when the read
\* of the cache raised or no non-empty description is stored under the hash
\* (so again after an empty description or after a write that raised); a
\* hash with a stored non-empty description gets the stored text without a
\* model call, and a successful model call writes its record before its
\* description is returned.
C7_ModelCalledOnlyWithoutStoredText ==
    Described =>
        /\ LastItem.called => (LastItem.read = "raise" \/ ~StoredText)
        /\ StoredTextReused
        /\ GeneratedTextStored

C7_Witness ==
    /\ Described
    /\ ~readFailed
    /\ LastItem.again
    /\ StoredText
    /\ ~LastItem.called
    /\ Get(descRun.descriptions[LastItem.filename]).from_cache

(***************************************************************************)
(* Claims on failed reads of the cache.                                    *)
(***************************************************************************)
\* the store the last upload call works on
StoreOf(fn) == IF fn = "upload_image_deduplicated" THEN imgBlobs ELSE blobs

\* C12: a read of a cache entry that raises is a miss. An upload whose
\* existence check raised goes on to upload_blob, reports uploaded=True and
\* leaves its content stored; an image whose lookup in check_image_in_cache
\* raised is downloaded and is not reported from the cache; an image whose
\* description read raised is sent to the model and is not reported from
\* the cache. The failure itself never leaves the operation.
C12_ReadFailureIsMiss ==
    /\ (upCall # None /\ Get(upCall).check = "raise") =>
          /\ Get(upCall).uploaded
          /\ ~Get(upCall).raised =>
                /\ StoreOf(Get(upCall).fn)[Get(upCall).path] # None
                /\ Get(StoreOf(Get(upCall).fn)[Get(upCall).path]).bytes = Get(upCall).content
    /\ \A f \in imRun.cache_failed :
          /\ f \in imRun.downloads
          /\ imRun.processed_images[f] # None =>
                ~Get(imRun.processed_images[f]).from_cache
    /\ (Described /\ LastItem.read = "raise") =>
          /\ LastItem.called
          /\ descRun.descriptions[LastItem.filename] # None =>
                ~Get(descRun.descriptions[LastItem.filename]).from_cache

C12_Witness ==
    /\ Described
    /\ LastItem.read = "raise"
    /\ StoredText
    /\ LastItem.called
    /\ LastItem.result.success
    /\ descRun.pc # "raised"
    /\ ~Get(descRun.descriptions[LastItem.filename]).from_cache

(***************************************************************************)
(* Claims on the image manager.                                            *)
(***************************************************************************)
\* the call has looked up this version marker for the file
Observes(filename, version_hash) ==
    \E i \in 1..Len(ContentBlocks) :
        /\ ContentBlocks[i].filename = filename
        /\ BlockMarker(ContentBlocks[i], imRun.attachments) = Some(version_hash)

\* C8: a call that observes the version marker under which an earlier call
\* resolved the image does not download the image and returns the blob_url
\* and image_hash resolved earlier.
C8_SameMarkerSkipsDownload ==
    imRun.pc = "returned" =>
        \A e \in resolved :
            Observes(e.filename, e.version_hash) =>
                /\ e.filename \notin imRun.downloads
                /\ imRun.processed_images[e.filename] # None
                /\ Get(imRun.processed_images[e.filename]).blob_url = e.blob_url
                /\ Get(imRun.processed_images[e.filename]).image_hash = e.image_hash

(***************************************************************************)
(* Claims on the content-addressed image blobs.                            *)
(***************************************************************************)
\* C9: when the bytes of an image are already stored for another source
\* filename, upload_image_deduplicated (its existence check succeeding)
\* returns uploaded=False and the URL of the blob that holds them.
C9_SameBytesUploadedOnce ==
    ( /\ Returned
      /\ Get(upCall).fn = "upload_image_deduplicated"
      /\ Get(upCall).check = "ok"
      /\ Get(upCall).same_bytes # {} ) =>
        /\ Get(upCall).uploaded = FALSE
        /\ Get(upCall).path \in Get(upCall).same_bytes

KeepsBytes(store, store2, key) ==
    /\ store2[key] # None
    /\ Get(store2[key]).bytes = Get(store[key]).bytes

\* C10 as claimed: no operation changes the bytes of a blob once stored,
\* neither of an image nor of a page version document.
C10_StoredBytesNeverChange ==
    [][ /\ \A n \in ImageBlobNames : imgBlobs[n] # None => KeepsBytes(imgBlobs, imgBlobs', n)
        /\ \A p \in BlobPaths : blobs[p] # None => KeepsBytes(blobs, blobs', p) ]_vars

\* C10 as amended: a stored blob is never removed; the bytes of an image
\* blob change only in an upload_image_deduplicated call for the same blob
\* name whose existence check raised; a page version document is
\* overwritten in place by an upload of different content for its path.
C10_ImageBytesKeptWhenChecked ==
    [][ /\ \A n \in ImageBlobNames : imgBlobs[n] # None =>
              \/ KeepsBytes(imgBlobs, imgBlobs', n)
              \/ /\ imgBlobs'[n] # None
                 /\ Get(upCall').fn = "upload_image_deduplicated"
                 /\ Get(upCall').path = n
                 /\ Get(upCall').check = "raise"
                 /\ Get(imgBlobs'[n]).bytes = Get(upCall').content
        /\ \A p \in BlobPaths : blobs[p] # None =>
              \/ KeepsBytes(blobs, blobs', p)
              \/ /\ blobs'[p] # None
                 /\ Get(upCall').path = p
                 /\ Get(upCall').uploaded
                 /\ Get(blobs'[p]).bytes = Get(upCall').content ]_vars

C10_Witness ==
    /\ Returned
    /\ Get(upCall).fn = "upload_image_deduplicated"
    /\ Get(upCall).check = "ok"
    /\ Get(upCall).pre # None
    /\ Get(Get(upCall).pre).bytes # Get(upCall).content
    /\ Get(upCall).uploaded = FALSE
    /\ imgBlobs[Get(upCall).path] = Get(upCall).pre

(***************************************************************************)
(* Claims on the parser of the page body.                                  *)
(***************************************************************************)
ParsedBlocks == Get(parsed)

IsElementBlock(block) == block.type # "text"

\* C14: parse emits the heading, image, table and list blocks in ascending
\* order of their start offsets in the source, and the index of every emitted
\* block is its position in the returned list: 0, 1, 2, ...
C14_BlocksInSourceOrder ==
    parsed # None =>
        /\ \A i \in 1..Len(ParsedBlocks) : ParsedBlocks[i].index = i - 1
        /\ \A i, j \in 1..Len(ParsedBlocks) :
              ( /\ i < j
                /\ IsElementBlock(ParsedBlocks[i])
                /\ IsElementBlock(ParsedBlocks[j]) )
                 => ParsedBlocks[i].span[1] < ParsedBlocks[j].span[1]

\* a heading comes out before an image that follows it in the source,
\* although the images are collected first
C14_Witness ==
    /\ parsed # None
    /\ \E i, j \in 1..Len(ParsedBlocks) :
          /\ i < j
          /\ ParsedBlocks[i].type = "heading"
          /\ ParsedBlocks[j].type = "image"
          /\ ParsedBlocks[j].index = j - 1

(***************************************************************************)
(* Claims on the chunkers.                                                 *)
(***************************************************************************)
SemanticCall == chunked # None /\ Get(chunked).fn = "chunk_document_semantic"

WholePageCall == chunked # None /\ Get(chunked).fn = "chunk_document_whole_page"

ChunkedSections == Get(chunked).sections

RECURSIVE Concat(_)
Concat(seqs) == IF seqs = <<>> THEN <<>> ELSE Head(seqs) \o Concat(Tail(seqs))

\* the blocks of the sections, section after section, are the block list
SectionsPartition ==
    Concat([ k \in 1..Len(ChunkedSections) |-> ChunkedSections[k].blocks ])
        = [ i \in 1..Len(indexed) |-> i ]

SectionOf(i) ==
    CHOOSE k \in 1..Len(ChunkedSections) :
        \E j \in 1..Len(ChunkedSections[k].blocks) : ChunkedSections[k].blocks[j] = i

ChunksOf(k) ==
    { j \in 1..Len(Get(chunked).chunks) : Get(chunked).chunks[j].chunk_index = k - 1 }

SectionText(k) == ContentParts(indexed, ChunkedSections[k])

\* the text of block i is in a chunk: as a part of its own, or as the
\* heading line it repeats
Shown(i) ==
    \E j \in ChunksOf(SectionOf(i)) :
        \/ i \in Get(chunked).chunks[j].blocks
        \/ /\ indexed[i].type \in { "heading", "text" }
           /\ Some(indexed[i].content) = ChunkedSections[SectionOf(i)].heading

BeyondCap(i) ==
    \E k \in 1..Len(SectionText(SectionOf(i))) :
        /\ SectionText(SectionOf(i))[k].of = i
        /\ PartStart(SectionText(SectionOf(i)), k) >= SectionCap

\* C15: the sections of chunk_document_semantic partition the block list in
\* its order, and a block is in no emitted chunk only if its whole section
\* was dropped for its empty rendered text
C15_SectionsPartitionBlocks ==
    SemanticCall =>
        /\ SectionsPartition
        /\ \A i \in 1..Len(indexed) :
              ~Shown(i) => /\ ChunksOf(SectionOf(i)) = {}
                           /\ IsBlank(SectionText(SectionOf(i)))

\* C15 as the code has it: a block is also in no chunk when its section got
\* no embedding, or when its text starts beyond the first 10000 characters
\* of the section
C15_SectionsPartitionBlocksOrCut ==
    SemanticCall =>
        /\ SectionsPartition
        /\ \A i \in 1..Len(indexed) :
              ~Shown(i) => \/ /\ ChunksOf(SectionOf(i)) = {}
                              /\ \/ IsBlank(SectionText(SectionOf(i)))
                                 \/ Get(chunked).embeddings[SectionOf(i)] = "none"
                           \/ BeyondCap(i)
        /\ \A k \in 1..Len(ChunkedSections) : Cardinality(ChunksOf(k)) <= 1

\* a section without text is dropped next to one that made a chunk of two
\* blocks, and every embedding was there
C15_Witness ==
    /\ SemanticCall
    /\ Len(ChunkedSections) >= 2
    /\ \A k \in 1..Len(ChunkedSections) : Get(chunked).embeddings[k] = "ok"
    /\ \E i \in 1..Len(indexed) : ~Shown(i) /\ IsBlank(SectionText(SectionOf(i)))
    /\ \E j \in 1..Len(Get(chunked).chunks) :
          Cardinality(Get(chunked).chunks[j].blocks) = 2

\* the rendered text of section k has no character but the joints
NoText(k) == \A p \in 1..Len(SectionText(k)) : SectionText(k)[p].chars = 0

\* a section of one heading-like block and nothing else
HeadingOnly(k) ==
    /\ Len(ChunkedSections[k].blocks) = 1
    /\ is_heading_like(indexed[ChunkedSections[k].blocks[1]])

\* C16: chunk_document_semantic emits no chunk for a section with no
\* non-heading content: a heading-like block followed at once by another
\* heading-like block or by the end of the list
C16_HeadingOnlySectionDropped ==
    SemanticCall =>
        \A k \in 1..Len(ChunkedSections) : HeadingOnly(k) => ChunksOf(k) = {}

\* C16 as the code has it: the section dropped is the one whose text, the
\* heading line included, is empty; a heading with text makes a chunk of its
\* heading line alone once the embedding is there
C16_BlankSectionDropped ==
    SemanticCall =>
        \A k \in 1..Len(ChunkedSections) :
            /\ NoText(k) => ChunksOf(k) = {}
            /\ ( /\ HeadingOnly(k)
                 /\ HasHeading(ChunkedSections[k])
                 /\ Get(chunked).embeddings[k] = "ok" )
                  => \E j \in ChunksOf(k) :
                        Get(chunked).chunks[j].content_text
                            = JoinedLen(<< SectionText(k)[1] >>)

C16_Witness ==
    /\ SemanticCall
    /\ \E k \in 1..Len(ChunkedSections) :
          /\ NoText(k)
          /\ Get(chunked).embeddings[k] = "ok"
          /\ ChunksOf(k) = {}
    /\ \E k \in 1..Len(ChunkedSections) :
          /\ HeadingOnly(k)
          /\ indexed[ChunkedSections[k].blocks[1]].type = "heading"
          /\ ChunksOf(k) # {}

LongPage == indexed # <<>> /\ JoinedLen(PageParts(indexed)) > PageCap

RateLimited(outcome) == outcome = "Error code: 429" \/ outcome = "Rate limit reached for requests"

EmbeddingCalls == Len(embedCall.outcomes)

EmbeddingReturned == embedCall.pc = "returned"

\* at most retry_count calls; a call is followed by another only after a
\* rate-limit error; None after one call on another error, and None after
\* retry_count rate-limit errors
RetriesOnlyOnRateLimit ==
    /\ EmbeddingCalls <= embedCall.retry_count
    /\ \A k \in 1..EmbeddingCalls - 1 : RateLimited(embedCall.outcomes[k])
    /\ ( EmbeddingReturned /\ EmbeddingCalls > 0 ) =>
          LET last == embedCall.outcomes[EmbeddingCalls]
          IN  /\ last = Created => embedCall.result = Some("embedding")
              /\ last # Created => embedCall.result = Some("None")
              /\ RateLimited(last) => EmbeddingCalls = embedCall.retry_count
    /\ ( EmbeddingReturned /\ EmbeddingCalls = 0 ) =>
          embedCall.retry_count = 0 /\ embedCall.result = Some("None")
    /\ ( embedCall.pc = "loop" /\ EmbeddingCalls > 0 ) =>
          /\ RateLimited(embedCall.outcomes[EmbeddingCalls])
          /\ EmbeddingCalls < embedCall.retry_count

\* C20: generate_embedding always returns, after at most retry_count calls
\* of the embedding service; it calls again only after a rate-limit (429)
\* error, returns None after one call on any other error and returns None
\* once retry_count rate-limit errors have occurred
C20_EmbeddingRetriesBounded ==
    /\ []RetriesOnlyOnRateLimit
    /\ ( embedCall.pc = "loop" ) ~> EmbeddingReturned

\* three rate-limit errors with the default retry_count, and None
C20_Witness ==
    /\ EmbeddingReturned
    /\ embedCall.retry_count = 3
    /\ EmbeddingCalls = 3
    /\ \A k \in 1..3 : RateLimited(embedCall.outcomes[k])
    /\ embedCall.result = Some("None")
    /\ embedCall.retry_delay = 2
    /\ embedCall.slept = 6

(***************************************************************************)
(* Claims on the runs over the list of pages.                              *)
(***************************************************************************)
BatchOver == batch.pc \in { "done", "failed" }

\* C18: in process_multiple_pages and in run_pipeline an exception raised
\* while one page is processed goes into the result of that page, and every
\* later page of the list is processed and has a result of its own
C18_PageFailureIsolated ==
    BatchOver =>
        /\ Len(batch.results) = MaxPages
        /\ \A p \in PageIds : batch.results[p].page_id = p

\* C19: in the V2 pipeline a failure of one image, in its download, its blob
\* upload, its description call or the write of its description-cache entry,
\* does not abort the page: no page result has the error of an image, and
\* the page reaches blob_upload with success = TRUE unless a step of the
\* page itself failed
C19_ImageFailureKeepsPage ==
    batch.fn = "process_multiple_pages" =>
        \A k \in 1..Len(batch.results) :
            LET page == batch.results[k]
            IN  /\ page.error # None => Get(page.error)[2] = 0
                /\ ( page.error = None /\ page.has_changes ) =>
                      /\ page.success
                      /\ page.steps_completed[Len(page.steps_completed)] = "blob_upload"

\* C25: the source spans that parse turns into blocks never overlap, also
\* when elements are nested: no part of the markup is in two blocks
C25_SpansNeverOverlap ==
    parsed # None =>
        \A i, j \in 1..Len(ParsedBlocks) :
            i < j => ParsedBlocks[i].span[2] <= ParsedBlocks[j].span[1]

(***************************************************************************)
(* Claims on the change summary.                                           *)
(***************************************************************************)
\* the body line of a raw text, after the title, the version and the
\* empty line
BodyOf(raw_text) == raw_text[4]

SnapshotCompared == ReadOk /\ Get(run).pre # None

\* the current body is the stored one with one [IMAGE_ATTACHMENT: foo.png]
\* marker more
ImageAddedOnly ==
    /\ SnapshotCompared
    /\ \E k \in 0..Len(BodyOf(Get(Get(run).pre).raw_text)) :
          BodyOf(Get(run).raw_text)
              = SubSeq(BodyOf(Get(Get(run).pre).raw_text), 1, k)
                  \o Marker(AttachedImage)
                  \o SubSeq(BodyOf(Get(Get(run).pre).raw_text), k + 1,
                            Len(BodyOf(Get(Get(run).pre).raw_text)))

SummaryHas(tag) ==
    \E i \in 1..Len(Get(result).change_summary) : Get(result).change_summary[i].tag = tag

ImageRefs(line) ==
    SelectSeq(line, LAMBDA tok : tok \in { "[IMAGE_ATTACHMENT:", "foo.png" })

\* the stored and the current content differ and hold the same image
\* references
TextEditedOnly ==
    /\ SnapshotCompared
    /\ HashChanged
    /\ BodyOf(Get(run).raw_text) # BodyOf(Get(Get(run).pre).raw_text)
    /\ ImageRefs(BodyOf(Get(run).raw_text)) = ImageRefs(BodyOf(Get(Get(run).pre).raw_text))

\* C27: when the image references of the page are the same in the stored
\* snapshot and in the current content, the change_summary has no
\* 'NEW IMAGE ADDED' segment and no 'IMAGE REMOVED' segment
C27_TextEditReportsNoImage ==
    TextEditedOnly => ~SummaryHas("NEW IMAGE ADDED") /\ ~SummaryHas("IMAGE REMOVED")

(***************************************************************************)
(* Claims on the blob the image store returns.                             *)
(***************************************************************************)
ImageCallReturned ==
    /\ upCall # None
    /\ Get(upCall).fn = "upload_image_deduplicated"
    /\ ~Get(upCall).raised

\* C29: the blob URL upload_image_deduplicated returns designates a blob with
\* the bytes of the local file, also when another image with the same
\* sanitized name and the same hash prefix is stored already
C29_ReturnedBlobHoldsFileBytes ==
    ImageCallReturned =>
        /\ imgBlobs[Get(upCall).path] # None
        /\ Get(imgBlobs[Get(upCall).path]).bytes = Get(upCall).content

(***************************************************************************)
(* Claims on metadata.json.                                                *)
(***************************************************************************)
ListedTimes(v) ==
    Cardinality({ i \in 1..Len(Get(metadataBlob).versions) :
                    Get(metadataBlob).versions[i].version = v })

\* C28: after any sequence of update_page_metadata calls, metadata.json lists
\* every version passed so far exactly once, also when a read of the existing
\* metadata.json has failed, and latest_version is the version of the most
\* recent call
C28_MetadataListsEveryVersionOnce ==
    (metaCall # None /\ ~Get(metaCall).raised) =>
        /\ metadataBlob # None
        /\ \A v \in versionsPassed : ListedTimes(v) = 1
        /\ Get(metadataBlob).latest_version = Some(Get(metaCall).version)

(***************************************************************************)
(* Claims on the counters of the pipeline.                                 *)
(***************************************************************************)
\* C30: after process_multiple_pages the four counters of stats equal the
\* numbers of downloads, image cache hits, model calls and description cache
\* hits summed over the processed pages, none counted more than once
C30_StatsCountEachEventOnce ==
    pagesDone = MaxPages =>
        /\ pipelineStats.images_downloaded = pageEvents.downloaded
        /\ pipelineStats.images_cached = pageEvents.skipped_cached
        /\ pipelineStats.descriptions_generated = pageEvents.generated
        /\ pipelineStats.descriptions_cached = pageEvents.from_cache

(***************************************************************************)
(* Claims on the image results attached to the blocks.                     *)
(***************************************************************************)
\* C26: after process_page has attached the image results, the blob_url, the
\* image_hash and the description of every image block are those of the image
\* the block references, also when two blocks share a filename
C26_BlockGetsItsOwnImage ==
    attachedBlocks # None =>
        \A i \in 1..Len(Get(attachedBlocks)) :
            LET b == Get(attachedBlocks)[i]
                own == ServedImage(b.block)
            IN /\ b.image_hash \in {None, Some(own)}
               /\ b.blob_url \in {None, Some(BlobUrl(own, b.block.filename))}
               /\ b.description \in {None, Some(DescriptionOf(own))}

(***************************************************************************)
(* Claims on a change whose processing fails.                              *)
(***************************************************************************)
\* the last process_page failed after step 1 had reported a change, nothing
\* has uploaded that content since, and step 1 has now run again over it
DetectedAgainAfterFailure ==
    /\ StepsPending
    /\ pageSteps.outcome = "failed"
    /\ pageSteps.content_hash = Some(Get(run).content_hash)
    /\ Get(run).content_hash \notin processedHashes

\* C23: a detected change is never lost: when a later step of process_page
\* has failed after has_changes = True, the next run over the same content,
\* still not processed, reports has_changes = True again
C23_FailedChangeDetectedAgain ==
    DetectedAgainAfterFailure => Get(result).has_changes

(***************************************************************************)
(* Claims on the search index.                                             *)
(***************************************************************************)
\* C24: after index_single_page(page_id, space_key, delete_existing=True)
\* has returned, the index holds no chunk of page_id that was indexed before
\* the call: what it holds of the page is what the call uploaded
C24_OldChunksRemoved ==
    indexCall # None =>
        PageChunks(searchIndex, Get(indexCall).page_id) \subseteq Get(indexCall).uploaded

(***************************************************************************)
(* Claims on the sending of the digest.                                    *)
(***************************************************************************)
\* the POSTs of the call that were followed, or are about to be followed, by
\* another POST
FollowedPosts ==
    { i \in 1..Len(mailCall.outcomes) :
        i < Len(mailCall.outcomes) \/ mailCall.pc = "running" }

Answered5xx(o) == o.raised = "none" /\ o.status_code \in 500..599

\* C21 as stated: at most max_retries POSTs, a further one only after a 5xx
\* response or a timeout, none after a 4xx response or any other error
C21_RetriesOnlyAfter5xxOrTimeout ==
    /\ Len(mailCall.outcomes) <= mailCall.max_retries
    /\ \A i \in FollowedPosts :
          Answered5xx(mailCall.outcomes[i]) \/ mailCall.outcomes[i].raised = "Timeout"

\* C21: at most max_retries POSTs; a further one only after a 5xx response or
\* after the POST has raised, a timeout or any other exception; after a
\* response that is neither 200/202 nor 5xx the call returns an error at once
C21_RetriesOnlyAfter5xxOrException ==
    /\ Len(mailCall.outcomes) <= mailCall.max_retries
    /\ \A i \in FollowedPosts :
          Answered5xx(mailCall.outcomes[i]) \/ mailCall.outcomes[i].raised # "none"
    /\ mailCall.pc = "returned" =>
          (mailCall.status = "success") =
              (\E i \in 1..Len(mailCall.outcomes) :
                  /\ mailCall.outcomes[i].raised = "none"
                  /\ mailCall.outcomes[i].status_code \in {200, 202})

C21_Witness ==
    /\ mailCall.pc = "returned"
    /\ mailCall.max_retries = 3
    /\ Len(mailCall.outcomes) = 3
    /\ mailCall.outcomes[1] = Raised("ConnectionError")
    /\ mailCall.outcomes[2] = Responded(503)
    /\ mailCall.outcomes[3] = Responded(404)
    /\ mailCall.status = "error"

====
